---- MODULE Spec2Model ----
(***************************************************************************)
(* Scene graph and command journal of the embroidery engine                *)
(* (crates/engine/src/scene.rs, command.rs, state.rs, wasm.rs).            *)
(*                                                                         *)
(* A Scene is a record; every Scene method is an operator from a scene     *)
(* (and its arguments) to [ok, s]: the Result and the scene left behind.   *)
(* NodeId(n) is the integer n; Option<NodeId>::None is NoneId.             *)
(* Node payload that no operation below inspects (name, shape geometry,    *)
(* colours, stitch parameters) is left out; transform is one small value.  *)
(* The commands that only rewrite that payload (Rename, SetFill, SetStroke,*)
(* SetStrokeWidth, SetPathCommands) are left out with it.                  *)
(***************************************************************************)
EXTENDS Integers, Sequences, FiniteSets, TLC

\* ---------------------------------------------------------------- bounds
MaxId == 3          \* node ids handed out by alloc_id are 1..MaxId
MaxSeq == 5         \* cap on next_sequencer_index
max_history == 2    \* CommandHistory::new(max_history)
MaxIndex == 2       \* child / sequencer indices offered by callers: 0..MaxIndex
MaxSteps == 4       \* calls made on one document
DeepSteps == 5      \* calls made on one document by SequencerSpec
ColorBlocks == 3    \* stitch blocks of an export with thread colours
TrimBlocks == 2     \* stitch blocks of an export with trims
DstStitches == 2    \* stitches of a design written as DST, its End not counted
CodecSlack == 2     \* deltas tried beyond MAX_DELTA on either side
PesStitches == 2    \* stitches of a design written as PES, padding and End not counted
PesPad == 2         \* stitches at the origin that pad a design
OrderSteps == 6     \* calls of a session that ends with an undo over unordered nodes
RouteBlocks == 3    \* stitch blocks of an export whose route is compared
RoutePos == 4       \* their stitches lie at 0..RoutePos mm

\* ------------------------------------------------------------- constants
\* u64::MAX cut to 32 bits: the largest NodeId, and the sort key of a shape
\* whose shape_meta is missing
U64_MAX == 2147483647

NoneId == 0
NodeIds == 1..MaxId
Kinds == {"Layer", "Group", "Shape"}
Transforms == {0, 1}
Overrides == {"none", "set"}
Indices == 0..MaxIndex

\* i32::MAX cut to 10 bits: unit coordinates and deltas of the DST writer
I32_MAX == 511
I32_MIN == - I32_MAX - 1

\* "Maximum stitch/jump delta per single DST command (in 0.1mm units)"
MAX_DELTA == 121

DST_END_MARKER == <<0, 0, 243>>

I16_MAX == 32767

\* f64::INFINITY: a value beyond every coordinate of a design
INFINITY == 1000000

\* "Maximum number of stitches that fit in a single PES CSewSeg block (u16)",
\* u16::MAX cut to 2 bits for this count
MAX_PES_STITCH_COUNT == 3

\* i16::MAX as f64 / 10.0 mm, in twentieths of a millimetre
MAX_PES_COORDINATE == 2 * I16_MAX

DEFAULT_PEC_COLOR_BLACK == 20

\* "Standard PEC header offset before thumbnail"
PEC_COLOR_LIST_SIZE == 463

VARIABLES scene, undo_stack, redo_stack, last, snaps, undoneFrom, discarded, everMax, out, steps

vars == <<scene, undo_stack, redo_stack, last, snaps, undoneFrom, discarded, everMax, out, steps>>

\* ------------------------------------------------------- Vec<T> helpers
Min(a, b) == IF a < b THEN a ELSE b
Max(a, b) == IF a > b THEN a ELSE b

Contains(seq, x) == \E i \in 1..Len(seq) : seq[i] = x

\* Vec::retain(|c| *c != x)
Retain(seq, x) == SelectSeq(seq, LAMBDA c : c # x)

\* Vec::insert(idx, x), idx zero-based and <= len
InsertAt(seq, idx, x) == SubSeq(seq, 1, idx) \o <<x>> \o SubSeq(seq, idx + 1, Len(seq))

\* Vec::remove(idx), idx zero-based
RemoveAt(seq, idx) == SubSeq(seq, 1, idx) \o SubSeq(seq, idx + 2, Len(seq))

\* iter().position(|c| *c == x): zero-based, -1 for None
Position(seq, x) ==
    IF Contains(seq, x)
    THEN (CHOOSE i \in 1..Len(seq) : seq[i] = x /\ \A j \in 1..(i - 1) : seq[j] # x) - 1
    ELSE -1

\* HashMap::insert / HashMap::remove
MapPut(m, k, v) == [x \in DOMAIN m \cup {k} |-> IF x = k THEN v ELSE m[x]]
MapDel(m, k) == [x \in DOMAIN m \ {k} |-> m[x]]

EmptyMap == [x \in {} |-> 0]

Ok(s) == [ok |-> TRUE, s |-> s]
Err(s) == [ok |-> FALSE, s |-> s]

\* ---------------------------------------------------------------- Scene
SceneNew ==
    [nodes |-> EmptyMap,
     root_children |-> <<>>,
     next_id |-> 1,
     shape_meta |-> EmptyMap,
     next_sequencer_index |-> 1,
     embroidery_objects |-> {},
     stitch_blocks |-> EmptyMap,
     sequence_track |-> <<>>]

Node(id, kind, parent, transform) ==
    [id |-> id, kind |-> kind, children |-> <<>>, parent |-> parent, transform |-> transform]

with_index(idx) == [sequencer_index |-> idx, routing |-> "none"]

is_shape(s, id) == id \in DOMAIN s.nodes /\ s.nodes[id].kind = "Shape"

remove_stitch_plan_state(s, id) ==
    [s EXCEPT !.embroidery_objects = @ \ {id},
              !.stitch_blocks = MapDel(@, id),
              !.sequence_track = Retain(@, id)]

object_routing_overrides(s, id) ==
    IF id \in DOMAIN s.shape_meta THEN s.shape_meta[id].routing
    ELSE IF id \in DOMAIN s.stitch_blocks THEN s.stitch_blocks[id].routing_overrides
    ELSE "none"

sync_shape_stitch_plan_state(s, id) ==
    IF ~ is_shape(s, id) THEN remove_stitch_plan_state(s, id)
    ELSE [s EXCEPT !.embroidery_objects = @ \cup {id},
                   !.stitch_blocks = MapPut(@, id, [routing_overrides |-> object_routing_overrides(s, id)]),
                   !.sequence_track = IF Contains(@, id) THEN @ ELSE Append(@, id)]

ensure_shape_meta(s, id) ==
    IF ~ is_shape(s, id)
    THEN remove_stitch_plan_state([s EXCEPT !.shape_meta = MapDel(@, id)], id)
    ELSE IF id \in DOMAIN s.shape_meta THEN s
    ELSE [s EXCEPT !.shape_meta = MapPut(@, id, with_index(s.next_sequencer_index)),
                   !.next_sequencer_index = @ + 1]

SeqKey(s, id) == IF id \in DOMAIN s.shape_meta THEN s.shape_meta[id].sequencer_index ELSE U64_MAX

SeqLess(s, a, b) == SeqKey(s, a) < SeqKey(s, b) \/ (SeqKey(s, a) = SeqKey(s, b) /\ a < b)

RECURSIVE SortIds(_, _)
SortIds(s, ids) ==
    IF ids = {} THEN <<>>
    ELSE LET m == CHOOSE a \in ids : \A b \in ids \ {a} : SeqLess(s, a, b)
         IN  <<m>> \o SortIds(s, ids \ {m})

sequencer_shape_ids(s) == SortIds(s, {id \in DOMAIN s.nodes : s.nodes[id].kind = "Shape"})

sync_sequence_track_from_shape_meta(s) ==
    [s EXCEPT !.sequence_track =
        SelectSeq(sequencer_shape_ids(s), LAMBDA id : id \in DOMAIN s.stitch_blocks)]

\* the loop of sync_all_stitch_plan_state over nodes.keys(), taken in `order`
RECURSIVE SyncEach(_, _)
SyncEach(s, order) ==
    IF order = <<>> THEN s
    ELSE LET id == Head(order)
         IN  SyncEach(IF id \in DOMAIN s.nodes
                      THEN sync_shape_stitch_plan_state(ensure_shape_meta(s, id), id)
                      ELSE s,
                      Tail(order))

\* `order` is the iteration order of the node HashMap, which the language
\* leaves unspecified: a permutation of the ids chosen by the caller.
RetainBlocks(s) ==
    [s EXCEPT !.sequence_track = SelectSeq(@, LAMBDA id : id \in DOMAIN s.stitch_blocks)]

sync_all_stitch_plan_state(s, order) ==
    sync_sequence_track_from_shape_meta(RetainBlocks(SyncEach(s, order)))

\* remove `id` from the children list its parent field names
\* (the "Remove from parent's children list" block of remove_node and move_node)
DetachFromParent(s, parent, id) ==
    IF parent # NoneId
    THEN IF parent \in DOMAIN s.nodes
         THEN [s EXCEPT !.nodes[parent].children = Retain(@, id)]
         ELSE s
    ELSE [s EXCEPT !.root_children = Retain(@, id)]

\* children.insert(index.min(len), id) on the parent or on root_children;
\* index < 0 stands for None (append)
AttachToParent(s, parent, index, id) ==
    IF parent # NoneId
    THEN [s EXCEPT !.nodes[parent].children =
              InsertAt(@, Min(IF index < 0 THEN Len(@) ELSE index, Len(@)), id)]
    ELSE [s EXCEPT !.root_children =
              InsertAt(@, Min(IF index < 0 THEN Len(@) ELSE index, Len(@)), id)]

PushChild(s, parent, id) ==
    IF parent # NoneId
    THEN [s EXCEPT !.nodes[parent].children = Append(@, id)]
    ELSE [s EXCEPT !.root_children = Append(@, id)]

\* tail shared by add_node and add_node_with_id: insert, derive, link
InsertNode(s, id, kind, parent, transform) ==
    PushChild(
        sync_shape_stitch_plan_state(
            ensure_shape_meta(
                [s EXCEPT !.nodes = MapPut(@, id, Node(id, kind, parent, transform))], id), id),
        parent, id)

\* n + 1 on the id type as a build without overflow checks computes it
Succ(n) == IF n = U64_MAX THEN 0 ELSE n + 1

alloc_id(s) == [id |-> s.next_id, s |-> [s EXCEPT !.next_id = Succ(@)]]

AddAllocated(a, kind, parent) ==
    IF parent # NoneId /\ parent \notin DOMAIN a.s.nodes THEN Err(a.s)
    ELSE Ok(InsertNode(a.s, a.id, kind, parent, 0))

add_node(s, kind, parent) == AddAllocated(alloc_id(s), kind, parent)

BumpNextId(s, id) == IF id >= s.next_id THEN [s EXCEPT !.next_id = Succ(id)] ELSE s

add_node_with_id(s, id, kind, parent, transform) ==
    IF parent # NoneId /\ parent \notin DOMAIN s.nodes THEN Err(s)
    ELSE IF id \in DOMAIN s.nodes THEN Err(s)
    ELSE Ok(InsertNode(BumpNextId(s, id), id, kind, parent, transform))

\* nodes.remove(id)?, shape_meta.remove(id), remove_stitch_plan_state(id)
DropNode(s, id) ==
    IF id \notin DOMAIN s.nodes THEN Err(s)
    ELSE Ok(remove_stitch_plan_state(
                [s EXCEPT !.nodes = MapDel(@, id), !.shape_meta = MapDel(@, id)], id))

RECURSIVE remove_node(_, _)
RECURSIVE RemoveEach(_, _)
RemoveEach(s, children) ==
    IF children = <<>> THEN s
    ELSE RemoveEach(remove_node(s, Head(children)).s, Tail(children))

remove_node(s, id) ==
    IF id \notin DOMAIN s.nodes THEN Err(s)
    ELSE DropNode(DetachFromParent(RemoveEach(s, s.nodes[id].children), s.nodes[id].parent, id), id)

\* the parent walk of is_ancestor_of; in a tree it ends within one step per node
RECURSIVE AncestorWalk(_, _, _, _)
AncestorWalk(s, ancestor, current, fuel) ==
    IF current = NoneId \/ fuel = 0 THEN FALSE
    ELSE IF current = ancestor THEN TRUE
    ELSE AncestorWalk(s, ancestor,
                      IF current \in DOMAIN s.nodes THEN s.nodes[current].parent ELSE NoneId,
                      fuel - 1)

\* the walk cut to its first comparison
is_ancestor_of_self_only(s, ancestor, descendant) == ancestor = descendant

is_ancestor_of(s, ancestor, descendant) ==
    AncestorWalk(s, ancestor, descendant, Cardinality(DOMAIN s.nodes) + 1)

SetParent(s, id, parent) == [s EXCEPT !.nodes[id].parent = parent]

\* move_node without its cycle check
move_node_unchecked(s, id, new_parent, index) ==
    IF id \notin DOMAIN s.nodes THEN Err(s)
    ELSE IF new_parent # NoneId /\ new_parent \notin DOMAIN s.nodes THEN Err(s)
    ELSE Ok(SetParent(
                AttachToParent(DetachFromParent(s, s.nodes[id].parent, id), new_parent, index, id),
                id, new_parent))

\* index: -1 for None (append)
move_node(s, id, new_parent, index) ==
    IF id \notin DOMAIN s.nodes THEN Err(s)
    ELSE IF new_parent # NoneId /\ new_parent \notin DOMAIN s.nodes THEN Err(s)
    ELSE IF new_parent # NoneId /\ is_ancestor_of(s, id, new_parent) THEN Err(s)
    ELSE Ok(SetParent(
                AttachToParent(DetachFromParent(s, s.nodes[id].parent, id), new_parent, index, id),
                id, new_parent))

Siblings(s, id) ==
    IF s.nodes[id].parent # NoneId
    THEN IF s.nodes[id].parent \in DOMAIN s.nodes
         THEN s.nodes[s.nodes[id].parent].children ELSE <<>>
    ELSE s.root_children

\* Vec::remove(current) then Vec::insert(new_index.min(len), id)
Replace(seq, id, new_index) ==
    InsertAt(RemoveAt(seq, Position(seq, id)), Min(new_index, Len(seq) - 1), id)

reorder_child(s, id, new_index) ==
    IF id \notin DOMAIN s.nodes THEN Err(s)
    ELSE IF Position(Siblings(s, id), id) < 0 THEN Err(s)
    ELSE Ok(IF s.nodes[id].parent # NoneId
            THEN [s EXCEPT !.nodes[s.nodes[id].parent].children = Replace(@, id, new_index)]
            ELSE [s EXCEPT !.root_children = Replace(@, id, new_index)])

restore_node(s, node) ==
    sync_shape_stitch_plan_state(
        ensure_shape_meta([BumpNextId(s, node.id) EXCEPT !.nodes = MapPut(@, node.id, node)],
                          node.id),
        node.id)

restore_shape_meta(s, id, meta) ==
    sync_sequence_track_from_shape_meta(
        sync_shape_stitch_plan_state(
            [s EXCEPT !.next_sequencer_index = Max(@, meta.sequencer_index + 1),
                      !.shape_meta = MapPut(@, id, meta)],
            id))

\* the loop of reorder_sequencer_shape writing idx + 1 into every shape's meta
RECURSIVE AssignDense(_, _, _)
AssignDense(meta, ordered, idx) ==
    IF idx >= Len(ordered) THEN meta
    ELSE AssignDense(
            MapPut(meta, ordered[idx + 1],
                   [sequencer_index |-> idx + 1,
                    routing |-> IF ordered[idx + 1] \in DOMAIN meta
                                THEN meta[ordered[idx + 1]].routing ELSE "none"]),
            ordered, idx + 1)

\* the loop writing idx where it should write idx + 1
RenumberFromZero(s, ordered) ==
    sync_sequence_track_from_shape_meta(
        [s EXCEPT !.shape_meta =
                    [id \in DOMAIN @ \cup {ordered[i] : i \in 1..Len(ordered)} |->
                        IF Contains(ordered, id)
                        THEN [sequencer_index |-> Position(ordered, id),
                              routing |-> IF id \in DOMAIN @ THEN @[id].routing ELSE "none"]
                        ELSE @[id]],
                  !.next_sequencer_index = Len(ordered) + 1])

Renumber(s, ordered) ==
    sync_sequence_track_from_shape_meta(
        [s EXCEPT !.shape_meta = AssignDense(@, ordered, 0),
                  !.next_sequencer_index = Len(ordered) + 1])

reorder_sequencer_shape(s, id, new_index) ==
    IF ~ is_shape(s, id) THEN Err(s)
    ELSE IF Position(sequencer_shape_ids(s), id) < 0 THEN Err(s)
    ELSE Ok(Renumber(s, Replace(sequencer_shape_ids(s), id, new_index)))

SetBlockOverrides(s, id, overrides) ==
    IF id \in DOMAIN s.stitch_blocks
    THEN [s EXCEPT !.stitch_blocks[id].routing_overrides = overrides]
    ELSE s

set_object_routing_overrides(s, id, overrides) ==
    IF ~ is_shape(s, id) THEN Err(s)
    ELSE IF id \in DOMAIN s.shape_meta
    THEN Ok(SetBlockOverrides([s EXCEPT !.shape_meta[id].routing = overrides], id, overrides))
    ELSE Ok(SetBlockOverrides(
                [s EXCEPT !.shape_meta = MapPut(@, id, [sequencer_index |-> s.next_sequencer_index,
                                                        routing |-> overrides]),
                          !.next_sequencer_index = @ + 1],
                id, overrides))

\* second half of reattach_node: the children of `id` point back to it
RelinkChildren(s, id) ==
    [s EXCEPT !.nodes =
        [n \in DOMAIN s.nodes |->
            IF id \in DOMAIN s.nodes /\ Contains(s.nodes[id].children, n)
            THEN [s.nodes[n] EXCEPT !.parent = id]
            ELSE s.nodes[n]]]

reattach_node(s, id, parent, index) ==
    IF parent # NoneId /\ parent \notin DOMAIN s.nodes THEN Err(s)
    ELSE Ok(RelinkChildren(AttachToParent(s, parent, index, id), id))


\* NodeKind::Layer { visible: false, .. } is the kind "HiddenLayer"
RenderKinds == Kinds \cup {"HiddenLayer"}

\* the test that never finds a layer invisible
InvisibleLayerNever(kind) == FALSE

\* `if let NodeKind::Layer { visible, .. } = &node.kind && !visible`
InvisibleLayer(kind) == kind = "HiddenLayer"

\* the ids of the RenderItems pushed, in order
RECURSIVE collect_render_items(_, _)
RECURSIVE CollectEach(_, _)
CollectEach(s, children) ==
    IF children = <<>> THEN <<>>
    ELSE collect_render_items(s, Head(children)) \o CollectEach(s, Tail(children))

collect_render_items(s, id) ==
    IF id \notin DOMAIN s.nodes THEN <<>>
    ELSE IF InvisibleLayer(s.nodes[id].kind) THEN <<>>
    ELSE (IF s.nodes[id].kind = "Shape" THEN <<id>> ELSE <<>>)
         \o CollectEach(s, s.nodes[id].children)

render_list(s) == CollectEach(s, s.root_children)

\* the parent walk of is_in_hidden_layer, from `current` upwards
RECURSIVE HiddenWalk(_, _, _)
HiddenWalk(s, current, fuel) ==
    IF current = NoneId \/ fuel = 0 \/ current \notin DOMAIN s.nodes THEN FALSE
    ELSE IF s.nodes[current].kind = "HiddenLayer" THEN TRUE
    ELSE HiddenWalk(s, s.nodes[current].parent, fuel - 1)

is_in_hidden_layer(s, id) == HiddenWalk(s, id, Cardinality(DOMAIN s.nodes) + 1)

\* ------------------------------------------------------------- commands
\* Option<ShapeSequencerMeta>: <<>> is None, <<m>> is Some(m)
RECURSIVE snapshot_subtree(_, _)
RECURSIVE SnapshotEach(_, _)
SnapshotEach(s, children) ==
    IF children = <<>> THEN <<>>
    ELSE snapshot_subtree(s, Head(children)) \o SnapshotEach(s, Tail(children))

snapshot_subtree(s, id) ==
    IF id \notin DOMAIN s.nodes THEN <<>>
    ELSE <<[node |-> s.nodes[id],
            shape_meta |-> IF id \in DOMAIN s.shape_meta THEN <<s.shape_meta[id]>> ELSE <<>>]>>
         \o SnapshotEach(s, s.nodes[id].children)

\* position(..).unwrap_or(0) of a node among its siblings
ChildIndex(s, id) == Max(Position(Siblings(s, id), id), 0)

\* Result<SceneCommand, String>: [ok, cmd]
build_remove_command(s, id) ==
    IF id \notin DOMAIN s.nodes THEN [ok |-> FALSE, cmd |-> [type |-> "RemoveNode"]]
    ELSE IF s.nodes[id].parent # NoneId /\ s.nodes[id].parent \notin DOMAIN s.nodes
    THEN [ok |-> FALSE, cmd |-> [type |-> "RemoveNode"]]
    ELSE [ok |-> TRUE,
          cmd |-> [type |-> "RemoveNode",
                   snapshot |-> snapshot_subtree(s, id),
                   parent |-> s.nodes[id].parent,
                   index |-> ChildIndex(s, id)]]

RestoreMeta(s, snap) ==
    IF snap.shape_meta # <<>> THEN restore_shape_meta(s, snap.node.id, snap.shape_meta[1]) ELSE s

\* first pass of restore_snapshot
RECURSIVE RestoreEach(_, _)
RestoreEach(s, snapshot) ==
    IF snapshot = <<>> THEN s
    ELSE RestoreEach(RestoreMeta(restore_node(s, Head(snapshot).node), Head(snapshot)),
                     Tail(snapshot))

ReattachRoot(s, snapshot, parent, index) ==
    IF snapshot # <<>> THEN reattach_node(s, snapshot[1].node.id, parent, index) ELSE Ok(s)

SyncIfOk(r, order) == IF r.ok THEN Ok(sync_all_stitch_plan_state(r.s, order)) ELSE r

restore_snapshot(s, snapshot, parent, index, order) ==
    SyncIfOk(ReattachRoot(RestoreEach(s, snapshot), snapshot, parent, index), order)

apply_command(s, cmd, reverse, order) ==
    CASE cmd.type = "AddNode" ->
            IF reverse THEN remove_node(s, cmd.id)
            ELSE add_node_with_id(s, cmd.id, cmd.kind, cmd.parent, cmd.transform)
      [] cmd.type = "RemoveNode" ->
            IF reverse THEN restore_snapshot(s, cmd.snapshot, cmd.parent, cmd.index, order)
            ELSE IF cmd.snapshot # <<>> THEN remove_node(s, cmd.snapshot[1].node.id)
            ELSE Ok(s)
      [] cmd.type = "UpdateTransform" ->
            IF cmd.id \notin DOMAIN s.nodes THEN Err(s)
            ELSE Ok([s EXCEPT !.nodes[cmd.id].transform = IF reverse THEN cmd.old ELSE cmd.new])
      [] cmd.type = "UpdateKind" ->
            IF cmd.id \notin DOMAIN s.nodes THEN Err(s)
            ELSE Ok(sync_shape_stitch_plan_state(
                        [s EXCEPT !.nodes[cmd.id].kind = IF reverse THEN cmd.old ELSE cmd.new],
                        cmd.id))
      [] cmd.type = "MoveNode" ->
            IF reverse THEN move_node(s, cmd.id, cmd.old_parent, cmd.old_index)
            ELSE move_node(s, cmd.id, cmd.new_parent, cmd.new_index)
      [] cmd.type = "ReorderChild" ->
            reorder_child(s, cmd.id, IF reverse THEN cmd.old_index ELSE cmd.new_index)
      [] cmd.type = "ReorderSequencer" ->
            reorder_sequencer_shape(s, cmd.id, IF reverse THEN cmd.old_index ELSE cmd.new_index)
      [] cmd.type = "SetObjectRoutingOverrides" ->
            set_object_routing_overrides(s, cmd.id, IF reverse THEN cmd.old ELSE cmd.new)

\* ------------------------------------------------------- CommandHistory
\* a history is [undo_stack, redo_stack]; every method returns
\* [result, s, h] with result "ok" (Ok(()) / Ok(true)), "false" (Ok(false)) or "err"
Top(stack) == stack[Len(stack)]
Pop(stack) == SubSeq(stack, 1, Len(stack) - 1)

\* the trim taking the wrong end of the Vec
TrimNewest(stack) == IF Len(stack) > max_history THEN Pop(stack) ELSE stack

\* "Trim oldest commands if over limit"
TrimOldest(stack) == IF Len(stack) > max_history THEN Tail(stack) ELSE stack

\* execute leaving the redo stack as it found it
ExecutedKeepsRedo(h, cmd, r) ==
    IF ~ r.ok THEN [result |-> "err", s |-> r.s, h |-> h]
    ELSE [result |-> "ok", s |-> r.s,
          h |-> [h EXCEPT !.undo_stack = TrimOldest(Append(@, cmd))]]

Executed(h, cmd, r) ==
    IF ~ r.ok THEN [result |-> "err", s |-> r.s, h |-> h]
    ELSE [result |-> "ok", s |-> r.s,
          h |-> [undo_stack |-> TrimOldest(Append(h.undo_stack, cmd)), redo_stack |-> <<>>]]

history_execute(h, s, cmd) == Executed(h, cmd, apply_command(s, cmd, FALSE, <<>>))

\* h has already lost the command: `pop()` comes before `apply_command(..)?`
Undone(h, cmd, r) ==
    IF ~ r.ok THEN [result |-> "err", s |-> r.s, h |-> h]
    ELSE [result |-> "ok", s |-> r.s, h |-> [h EXCEPT !.redo_stack = Append(@, cmd)]]

history_undo(h, s, order) ==
    IF h.undo_stack = <<>> THEN [result |-> "false", s |-> s, h |-> h]
    ELSE Undone([h EXCEPT !.undo_stack = Pop(@)], Top(h.undo_stack),
                apply_command(s, Top(h.undo_stack), TRUE, order))

Redone(h, cmd, r) ==
    IF ~ r.ok THEN [result |-> "err", s |-> r.s, h |-> h]
    ELSE [result |-> "ok", s |-> r.s, h |-> [h EXCEPT !.undo_stack = Append(@, cmd)]]

history_redo(h, s) ==
    IF h.redo_stack = <<>> THEN [result |-> "false", s |-> s, h |-> h]
    ELSE Redone([h EXCEPT !.redo_stack = Pop(@)], Top(h.redo_stack),
                apply_command(s, Top(h.redo_stack), FALSE, <<>>))


\* ------------------------------------------------------ export pipeline
\* Lengths are whole numbers of quarter millimetres and every point lies on
\* the x axis, so that `distance` is exact. A Stitch is
\* [position, is_jump, is_trim]; a ShapeStitchBlock is
\* [color, stitches, source_order]; an ExportStitch is [x, stitch_type];
\* Option<T> is <<>> for None and <<v>> for Some(v). The stitch generators
\* (running, satin, fills) are not modelled: an export starts from the
\* blocks they produce for the shapes of the render list.
Abs(n) == IF n < 0 THEN -n ELSE n

distance(a, b) == Abs(a - b)

Reverse(seq) == [i \in 1..Len(seq) |-> seq[Len(seq) + 1 - i]]

start_point(block) == block.stitches[1].position
end_point(block) == block.stitches[Len(block.stitches)].position

\* the cost times 20, which keeps the factors 0.25, 0.5 and 0.1 whole;
\* 1000.0 mm is 4000 quarter millimetres
route_cost(from, to, routing) ==
    LET travel == distance(from, to)
        trim == IF travel >= routing.trim_threshold_mm
                   /\ ~ (routing.allow_underpath /\ travel <= routing.max_jump_mm)
                THEN 1 ELSE 0
        jump_penalty == IF travel > routing.max_jump_mm THEN travel - routing.max_jump_mm ELSE 0
    IN  CASE routing.policy = "MinTravel" -> 20 * travel + 5 * jump_penalty
          [] routing.policy = "MinTrims" -> 80000 * trim + 2 * travel + 20 * jump_penalty
          [] routing.policy = "Balanced" ->
                20 * travel + 20 * trim * routing.trim_threshold_mm + 10 * jump_penalty

\* (f64, bool) as [cost, reverse]
best_route_score(from, block, routing) ==
    LET forward_cost == route_cost(from, start_point(block), routing)
        reverse_cost == route_cost(from, end_point(block), routing)
    IN  IF ~ routing.allow_reverse \/ routing.entry_exit_mode = "PreserveShapeStart"
        THEN [cost |-> forward_cost, reverse |-> FALSE]
        ELSE IF reverse_cost < forward_cost THEN [cost |-> reverse_cost, reverse |-> TRUE]
        ELSE [cost |-> forward_cost, reverse |-> FALSE]

\* Iterator::min_by: the first of the least elements; less(i, j) is Ordering::Less
FirstMin(n, less(_, _)) ==
    CHOOSE i \in 1..n : /\ \A j \in 1..n : ~ less(j, i)
                        /\ \A j \in 1..(i - 1) : less(i, j)

\* (usize, bool) as [index, reverse], index counted from 1
select_next_block_index(pending, current_end, routing) ==
    IF current_end = <<>>
    THEN [index |-> FirstMin(Len(pending),
                             LAMBDA i, j : pending[i].source_order < pending[j].source_order),
          reverse |-> FALSE]
    ELSE LET score(i) == best_route_score(current_end[1], pending[i], routing)
             index == FirstMin(Len(pending),
                               LAMBDA i, j :
                                   \/ score(i).cost < score(j).cost
                                   \/ /\ score(i).cost = score(j).cost
                                      /\ pending[i].source_order < pending[j].source_order)
         IN  [index |-> index, reverse |-> score(index).reverse]

Oriented(block, reverse) ==
    IF reverse THEN [block EXCEPT !.stitches = Reverse(@)] ELSE block

RECURSIVE optimize_bucket(_, _, _)
optimize_bucket(pending, routing, start_end) ==
    IF pending = <<>> THEN <<>>
    ELSE LET sel == select_next_block_index(pending, start_end, routing)
             next == Oriented(pending[sel.index], sel.reverse)
         IN  <<next>> \o optimize_bucket(RemoveAt(pending, sel.index - 1), routing,
                                          <<end_point(next)>>)

RECURSIVE orient_blocks_for_strict_sequencer(_, _, _)
orient_blocks_for_strict_sequencer(blocks, routing, current_end) ==
    IF blocks = <<>> THEN <<>>
    ELSE LET block == Oriented(Head(blocks),
                               /\ current_end # <<>>
                               /\ best_route_score(current_end[1], Head(blocks), routing).reverse)
         IN  <<block>> \o orient_blocks_for_strict_sequencer(Tail(blocks), routing,
                                                              <<end_point(block)>>)

\* buckets that keep the first block of each colour only
RECURSIVE ColorBucketsOfFirst(_, _)
ColorBucketsOfFirst(blocks, buckets) ==
    IF blocks = <<>> THEN buckets
    ELSE ColorBucketsOfFirst(Tail(blocks),
                             IF \E i \in 1..Len(buckets) : buckets[i][1].color = Head(blocks).color
                             THEN buckets ELSE Append(buckets, <<Head(blocks)>>))

\* color_buckets as a sequence of block sequences, in order of first appearance
RECURSIVE ColorBuckets(_, _)
ColorBuckets(blocks, buckets) ==
    IF blocks = <<>> THEN buckets
    ELSE LET b == Head(blocks)
             hit == {i \in 1..Len(buckets) : buckets[i][1].color = b.color}
         IN  ColorBuckets(Tail(blocks),
                          IF hit = {} THEN Append(buckets, <<b>>)
                          ELSE [buckets EXCEPT ![CHOOSE i \in hit : TRUE] = Append(@, b)])

LastEnd(ordered, current_end) ==
    IF ordered = <<>> THEN current_end ELSE <<end_point(ordered[Len(ordered)])>>

\* `for (_, pending) in &mut color_buckets` with allow_color_merge off
RECURSIVE BucketsInOrder(_, _, _)
BucketsInOrder(buckets, routing, current_end) ==
    IF buckets = <<>> THEN <<>>
    ELSE LET optimized == optimize_bucket(Head(buckets), routing, current_end)
         IN  optimized \o BucketsInOrder(Tail(buckets), routing, LastEnd(optimized, current_end))

\* the least best_route_score over the blocks of a bucket
BucketScore(bucket, end, routing) ==
    LET costs == {best_route_score(end, bucket[i], routing).cost : i \in 1..Len(bucket)}
    IN  CHOOSE c \in costs : \A d \in costs : c <= d

\* `while !color_buckets.is_empty()` with allow_color_merge on
RECURSIVE BucketsNearestFirst(_, _, _)
BucketsNearestFirst(buckets, routing, current_end) ==
    IF buckets = <<>> THEN <<>>
    ELSE LET bucket_index ==
                 IF current_end = <<>> THEN 1
                 ELSE FirstMin(Len(buckets),
                               LAMBDA i, j : BucketScore(buckets[i], current_end[1], routing)
                                             < BucketScore(buckets[j], current_end[1], routing))
             optimized == optimize_bucket(buckets[bucket_index], routing, current_end)
         IN  optimized \o BucketsNearestFirst(RemoveAt(buckets, bucket_index - 1), routing,
                                               LastEnd(optimized, current_end))

optimize_blocks_for_travel(blocks, routing) ==
    IF Len(blocks) <= 1 THEN blocks
    ELSE IF routing.sequence_mode = "StrictSequencer"
    THEN orient_blocks_for_strict_sequencer(blocks, routing, <<>>)
    ELSE IF routing.preserve_layer_order THEN blocks
    ELSE IF ~ routing.preserve_color_order THEN optimize_bucket(blocks, routing, <<>>)
    ELSE IF ~ routing.allow_color_merge
    THEN BucketsInOrder(ColorBuckets(blocks, <<>>), routing, <<>>)
    ELSE BucketsNearestFirst(ColorBuckets(blocks, <<>>), routing, <<>>)

\* the locals of the assembly loop of scene_to_export_design_with_routing
AssemblyStart ==
    [stitches |-> <<>>, colors |-> <<>>, current_color |-> <<>>,
     current_position |-> <<>>, run_since_trim_mm |-> 0]

Push(a, x, stitch_type) ==
    [a EXCEPT !.stitches = Append(@, [x |-> x, stitch_type |-> stitch_type])]

LastType(a) == IF a.stitches = <<>> THEN "none" ELSE a.stitches[Len(a.stitches)].stitch_type

\* 0.25 mm, in quarter millimetres
TIE_OFFSET_MM == 1

\* one point of the lock stitch
TiePoint(a, p) ==
    [Push(a, p, "Normal") EXCEPT
        !.run_since_trim_mm = IF a.current_position # <<>>
                              THEN @ + distance(a.current_position[1], p) ELSE @,
        !.current_position = <<p>>]

\* the lock stitch left out
emit_no_tie_sequence(a, anchor) == a

emit_tie_sequence(a, anchor) ==
    TiePoint(TiePoint(TiePoint(TiePoint(TiePoint(a, anchor), anchor + TIE_OFFSET_MM), anchor),
                      anchor - TIE_OFFSET_MM), anchor)

\* should_insert_trim without its test of the stitched run
should_insert_trim_any_run(routing, travel_mm, run_since_trim_mm) ==
    /\ travel_mm >= routing.trim_threshold_mm
    /\ ~ (routing.allow_underpath /\ travel_mm <= routing.max_jump_mm)
    /\ routing.policy \in {"Balanced", "MinTrims"}

should_insert_trim(routing, travel_mm, run_since_trim_mm) ==
    /\ travel_mm >= routing.trim_threshold_mm
    /\ run_since_trim_mm >= Max(routing.min_stitch_run_before_trim_mm, 0)
    /\ ~ (routing.allow_underpath /\ travel_mm <= routing.max_jump_mm)
    /\ routing.policy \in {"Balanced", "MinTrims"}

\* "Insert color change if the color differs from the previous shape"
ColorChangeStep(a, block, routing) ==
    IF a.current_color = <<>> \/ a.current_color = <<block.color>> THEN a
    ELSE LET tied == IF routing.tie_mode = "ColorChange" /\ a.current_position # <<>>
                     THEN emit_tie_sequence(a, a.current_position[1]) ELSE a
             trimmed == IF tied.stitches # <<>>
                        THEN [Push(tied, tied.stitches[Len(tied.stitches)].x, "Trim")
                                 EXCEPT !.run_since_trim_mm = 0]
                        ELSE tied
             changed == [Push(trimmed, start_point(block), "ColorChange")
                            EXCEPT !.current_position = <<start_point(block)>>]
         IN  IF routing.tie_mode = "ColorChange"
             THEN emit_tie_sequence(changed, start_point(block)) ELSE changed

\* every block's color pushed, changed or not
TrackEveryColor(a, block) ==
    [a EXCEPT !.colors = Append(@, block.color), !.current_color = <<block.color>>]

\* "Track color"
TrackColor(a, block) ==
    IF a.current_color # <<block.color>>
    THEN [a EXCEPT !.colors = Append(@, block.color), !.current_color = <<block.color>>]
    ELSE a

\* "Move to the start of this shape (if not the first shape)"
MoveToStart(a, block, routing) ==
    IF a.current_position = <<>> THEN a
    ELSE IF distance(a.current_position[1], start_point(block)) = 0 THEN a
    ELSE LET trimmed ==
                 IF /\ should_insert_trim(routing,
                                          distance(a.current_position[1], start_point(block)),
                                          a.run_since_trim_mm)
                    /\ a.stitches # <<>>
                    /\ LastType(a) # "Trim"
                 THEN [Push(a, a.current_position[1], "Trim") EXCEPT !.run_since_trim_mm = 0]
                 ELSE a
         IN  [Push(trimmed, start_point(block), "Jump")
                 EXCEPT !.current_position = <<start_point(block)>>]

ExportStitchType(stitch) ==
    IF stitch.is_jump THEN "Jump" ELSE IF stitch.is_trim THEN "Trim" ELSE "Normal"

\* `for stitch in &shape_stitches`
RECURSIVE EmitStitches(_, _)
EmitStitches(a, shape_stitches) ==
    IF shape_stitches = <<>> THEN a
    ELSE LET stitch == Head(shape_stitches)
             stitch_type == ExportStitchType(stitch)
         IN  EmitStitches(
                 [Push(a, stitch.position, stitch_type) EXCEPT
                     !.run_since_trim_mm =
                         IF stitch_type = "Normal" /\ a.current_position # <<>>
                         THEN @ + distance(a.current_position[1], stitch.position)
                         ELSE IF stitch_type = "Trim" THEN 0 ELSE @,
                     !.current_position = <<stitch.position>>],
                 Tail(shape_stitches))

TieIfShapeStartEnd(a, routing, anchor) ==
    IF routing.tie_mode = "ShapeStartEnd" /\ anchor # <<>>
    THEN emit_tie_sequence(a, anchor[1]) ELSE a

\* the locals on reaching "Move to the start of this shape" for `block`
BeforeMove(a, block, routing) == TrackColor(ColorChangeStep(a, block, routing), block)

Stitched(a, block, routing) ==
    EmitStitches(TieIfShapeStartEnd(a, routing, <<start_point(block)>>), block.stitches)

\* one pass of `for block in blocks`
AssembleBlock(a, block, routing) ==
    LET stitched == Stitched(MoveToStart(BeforeMove(a, block, routing), block, routing),
                             block, routing)
    IN  TieIfShapeStartEnd(stitched, routing, stitched.current_position)

RECURSIVE AssembleBlocks(_, _, _)
AssembleBlocks(a, blocks, routing) ==
    IF blocks = <<>> THEN a
    ELSE AssembleBlocks(AssembleBlock(a, Head(blocks), routing), Tail(blocks), routing)

\* "Append end marker", "Ensure at least one color"
Finished(a) ==
    [stitches |-> IF a.stitches # <<>>
                  THEN Append(a.stitches, [x |-> a.stitches[Len(a.stitches)].x,
                                           stitch_type |-> "End"])
                  ELSE a.stitches,
     colors |-> IF a.colors = <<>> THEN <<"black">> ELSE a.colors]

\* from the blocks built for the render list on: Result as [ok, design]
scene_to_export_design_with_routing(blocks, routing) ==
    IF blocks = <<>> THEN [ok |-> FALSE]
    ELSE [ok |-> TRUE,
          design |-> Finished(AssembleBlocks(AssemblyStart,
                                             optimize_blocks_for_travel(blocks, routing),
                                             routing))]

IsTravel(stitch_type) == stitch_type \in {"Jump", "Trim", "ColorChange"}

\* travel_distance_mm of compute_route_metrics
RECURSIVE travel_distance_mm(_, _)
travel_distance_mm(stitches, i) ==
    IF i > Len(stitches) THEN 0
    ELSE (IF i > 1 /\ IsTravel(stitches[i].stitch_type)
          THEN distance(stitches[i - 1].x, stitches[i].x) ELSE 0)
         + travel_distance_mm(stitches, i + 1)

color_change_count(design) ==
    Cardinality({i \in 1..Len(design.stitches) : design.stitches[i].stitch_type = "ColorChange"})

\* ------------------------------------------------------------ DST body
\* i32 arithmetic of a build without overflow checks
Wrap(n) == ((n - I32_MIN) % (2 * (I32_MAX + 1))) + I32_MIN

Overflows(n) == n < I32_MIN \/ n > I32_MAX

\* Rust's `/` and `%` on i32 round towards zero
TruncDiv(a, b) == IF a >= 0 THEN a \div b ELSE - ((- a) \div b)
TruncRem(a, b) == a - b * TruncDiv(a, b)

\* (s.x * 10.0).round() as i32, for a coordinate given in twentieths of a
\* millimetre: round() rounds halves away from zero, `as i32` saturates
RoundedUnits(half_units) ==
    IF half_units >= 0 THEN (half_units + 1) \div 2 ELSE - ((1 - half_units) \div 2)

Saturated(n) == IF n > I32_MAX THEN I32_MAX ELSE IF n < I32_MIN THEN I32_MIN ELSE n

stitches_in_units(design) ==
    [i \in 1..Len(design) |->
        [x |-> Saturated(RoundedUnits(design[i].x)),
         y |-> Saturated(RoundedUnits(design[i].y)),
         stitch_type |-> design[i].stitch_type]]

\* the digits of balanced_ternary from the n-th last on
RECURSIVE TernaryDigits(_, _)
TernaryDigits(v, n) ==
    IF n = 0 THEN <<>>
    ELSE LET rem == TruncRem(TruncRem(v, 3) + 3, 3)
         IN  IF rem = 0 THEN <<0>> \o TernaryDigits(TruncDiv(v, 3), n - 1)
             ELSE IF rem = 1 THEN <<1>> \o TernaryDigits(TruncDiv(Wrap(v - 1), 3), n - 1)
             ELSE <<-1>> \o TernaryDigits(TruncDiv(Wrap(v + 1), 3), n - 1)

balanced_ternary(val) == TernaryDigits(val, 5)

\* if only `d > 0` were tested
BitsOfPlus(d, plus, minus) == IF d > 0 THEN plus ELSE 0

\* `if d > 0 { b |= plus } else if d < 0 { b |= minus }`
Bits(d, plus, minus) == IF d > 0 THEN plus ELSE IF d < 0 THEN minus ELSE 0

MoveBits(move_type) ==
    IF move_type = "Jump" THEN 128 ELSE IF move_type = "ColorChange" THEN 192 ELSE 0

\* the three bytes of one command
Encoded(xd, yd, move_type) ==
    <<Bits(yd[1], 128, 64) + Bits(yd[3], 32, 16) + Bits(xd[1], 4, 8) + Bits(xd[3], 1, 2),
      Bits(yd[2], 128, 64) + Bits(yd[4], 32, 16) + Bits(xd[2], 4, 8) + Bits(xd[4], 1, 2),
      3 + MoveBits(move_type) + Bits(yd[5], 32, 16) + Bits(xd[5], 4, 8)>>

encode_3byte(dx, dy, move_type) == Encoded(balanced_ternary(dx), balanced_ternary(dy), move_type)

\* i32::abs: the least i32 has no negation
abs(n) == Wrap(Abs(n))

clamp(n, lo, hi) == IF n < lo THEN lo ELSE IF n > hi THEN hi ELSE n

\* the `while` test of encode_move; `||` does not look at dy once dx is large
TooLong(dx, dy) == abs(dx) > MAX_DELTA \/ abs(dy) > MAX_DELTA
TestOverflows(dx, dy) == dx = I32_MIN \/ (abs(dx) <= MAX_DELTA /\ dy = I32_MIN)

\* the commands written for one move, and whether an operation overflowed
RECURSIVE encode_move(_, _, _)
encode_move(dx, dy, move_type) ==
    IF TooLong(dx, dy)
    THEN LET chunk_dx == clamp(dx, - MAX_DELTA, MAX_DELTA)
             chunk_dy == clamp(dy, - MAX_DELTA, MAX_DELTA)
             rest == encode_move(dx - chunk_dx, dy - chunk_dy, move_type)
         IN  [commands |-> <<encode_3byte(chunk_dx, chunk_dy, "Jump")>> \o rest.commands,
              overflow |-> TestOverflows(dx, dy) \/ rest.overflow]
    ELSE [commands |-> <<encode_3byte(dx, dy, move_type)>>, overflow |-> TestOverflows(dx, dy)]

DstMoveType(stitch_type) == IF stitch_type = "Normal" THEN "Stitch" ELSE stitch_type

\* the arm of `match stype` for a stitch that is dx, dy from the one before
StitchCommands(dx, dy, stitch_type) ==
    IF stitch_type = "End" THEN [commands |-> <<DST_END_MARKER>>, overflow |-> FALSE]
    ELSE IF stitch_type = "Trim"
    THEN [commands |-> <<encode_3byte(1, 1, "Jump"), encode_3byte(-2, -2, "Jump"),
                         encode_3byte(1, 1, "Jump")>> \o encode_move(dx, dy, "Jump").commands,
          overflow |-> encode_move(dx, dy, "Jump").overflow]
    ELSE encode_move(dx, dy, DstMoveType(stitch_type))

\* `.last().is_none_or(|s| s.stitch_type != End)`
needs_end_never(stitches) == FALSE

needs_end(stitches) == stitches = <<>> \/ stitches[Len(stitches)].stitch_type # "End"

\* the loop of write_body from stitch i on
RECURSIVE BodyFrom(_, _, _, _)
BodyFrom(unit_stitches, i, prev_x, prev_y) ==
    IF i > Len(unit_stitches)
    THEN [commands |-> IF needs_end(unit_stitches) THEN <<DST_END_MARKER>> ELSE <<>>,
          overflow |-> FALSE]
    ELSE LET x == unit_stitches[i].x
             y == unit_stitches[i].y
             here == StitchCommands(Wrap(x - prev_x), Wrap(y - prev_y),
                                    unit_stitches[i].stitch_type)
             rest == BodyFrom(unit_stitches, i + 1, x, y)
         IN  [commands |-> here.commands \o rest.commands,
              overflow |-> \/ Overflows(x - prev_x) \/ Overflows(y - prev_y)
                           \/ here.overflow \/ rest.overflow]

\* a build with overflow checks panics where one without them wraps
write_body(design, build) ==
    LET body == BodyFrom(stitches_in_units(design), 1, 0, 0)
    IN  IF body.overflow /\ build = "checked" THEN [panic |-> TRUE]
        ELSE [panic |-> FALSE, commands |-> body.commands]

Has(byte, mask) == (byte \div mask) % 2 = 1

Weigh(byte, plus, minus, weight) ==
    (IF Has(byte, plus) THEN weight ELSE 0) - (IF Has(byte, minus) THEN weight ELSE 0)

decode_3byte(b0, b1, b2) ==
    [dx |-> Weigh(b0, 4, 8, 1) + Weigh(b0, 1, 2, 9) + Weigh(b1, 4, 8, 3) + Weigh(b1, 1, 2, 27)
            + Weigh(b2, 4, 8, 81),
     dy |-> Weigh(b0, 128, 64, 1) + Weigh(b0, 32, 16, 9) + Weigh(b1, 128, 64, 3)
            + Weigh(b1, 32, 16, 27) + Weigh(b2, 32, 16, 81),
     move_type |-> IF Has(b2, 64) THEN "ColorChange" ELSE IF Has(b2, 128) THEN "Jump"
                   ELSE "Stitch"]

\* ------------------------------------------------------- PES and PEC
\* An f64 coordinate is a number of twentieths of a millimetre, an infinity
\* or NaN. The coordinates tried here stay inside i32 in 0.1 mm units, where
\* `as i32` of stitches_in_units does not saturate; NaN is cast to 0.
NEG_INFINITY == - INFINITY
NaN == INFINITY + 1

\* f64::min and f64::max return the other operand when one is NaN
fmin(a, b) == IF b = NaN THEN a ELSE IF a = NaN THEN b ELSE Min(a, b)
fmax(a, b) == IF b = NaN THEN a ELSE IF a = NaN THEN b ELSE Max(a, b)

\* the loop of extents from stitch i on, e the extents so far
RECURSIVE ExtentsFrom(_, _, _)
ExtentsFrom(stitches, i, e) ==
    IF i > Len(stitches) THEN e
    ELSE ExtentsFrom(stitches, i + 1,
                     [min_x |-> fmin(e.min_x, stitches[i].x), min_y |-> fmin(e.min_y, stitches[i].y),
                      max_x |-> fmax(e.max_x, stitches[i].x), max_y |-> fmax(e.max_y, stitches[i].y)])

Folded(e) ==
    IF e.min_x > e.max_x THEN [min_x |-> 0, min_y |-> 0, max_x |-> 0, max_y |-> 0] ELSE e

extents(design) ==
    Folded(ExtentsFrom(design.stitches, 1,
                       [min_x |-> INFINITY, min_y |-> INFINITY,
                        max_x |-> NEG_INFINITY, max_y |-> NEG_INFINITY]))

\* (v * 10.0).round() as i32
AsUnits(v) == IF v = NaN THEN 0 ELSE RoundedUnits(v)

\* design.stitches_in_units() as export_pes and encode_pec_stitches call it
units_of(design) ==
    [i \in 1..Len(design.stitches) |->
        [x |-> AsUnits(design.stitches[i].x), y |-> AsUnits(design.stitches[i].y),
         stitch_type |-> design.stitches[i].stitch_type]]

\* `as u16` and `as i16` of an integer keep its low 16 bits
AsU16(n) == ((n % (2 * (I16_MAX + 1))) + 2 * (I16_MAX + 1)) % (2 * (I16_MAX + 1))

\* `as i16` of an f64 saturates
SaturatedI16(n) == IF n > I16_MAX THEN I16_MAX ELSE IF n < - I16_MAX - 1 THEN - I16_MAX - 1 ELSE n

write_u16_le(val) == <<val % 256, (val \div 256) % 256>>
write_s16_le(val) == write_u16_le(AsU16(val))

\* f32::to_le_bytes of 1.0 and of 0.0
write_f32_le(val) == IF val = 1 THEN <<0, 0, 128, 63>> ELSE <<0, 0, 0, 0>>

Repeat(byte, n) == [i \in 1..n |-> byte]

RECURSIVE Concat(_)
Concat(parts) == IF parts = <<>> THEN <<>> ELSE parts[1] \o Concat(Tail(parts))

Extent(v) == write_s16_le(SaturatedI16(AsUnits(v)))

Corners(e) == Extent(e.min_x) \o Extent(e.min_y) \o Extent(e.max_x) \o Extent(e.max_y)

write_cembone(design) ==
    Corners(extents(design)) \o Corners(extents(design))
        \o write_f32_le(1) \o write_f32_le(0) \o write_f32_le(0)
        \o write_f32_le(1) \o write_f32_le(0) \o write_f32_le(0)

\* PEC_COLORS, the entries 1 (Prussian Blue), 5 (Red) and 20 (Black)
PEC_COLORS == [i \in {1, 5, 20} |-> IF i = 1 THEN <<14, 31, 124>>
                                    ELSE IF i = 5 THEN <<237, 23, 31>> ELSE <<0, 0, 0>>]

Dist(color, i) ==
    (color[1] - PEC_COLORS[i][1]) * (color[1] - PEC_COLORS[i][1])
        + (color[2] - PEC_COLORS[i][2]) * (color[2] - PEC_COLORS[i][2])
        + (color[3] - PEC_COLORS[i][3]) * (color[3] - PEC_COLORS[i][3])

\* `if dist < best_dist`: the lowest index of the least distance
nearest_pec_color(color) ==
    CHOOSE i \in DOMAIN PEC_COLORS :
        \A j \in DOMAIN PEC_COLORS :
            Dist(color, i) < Dist(color, j) \/ (Dist(color, i) = Dist(color, j) /\ i <= j)

ColorPairs(colors) ==
    Concat([i \in 1..Len(colors) |->
               write_u16_le(AsU16(i - 1)) \o write_u16_le(nearest_pec_color(colors[i]))])

Coordinates(units) ==
    Concat([i \in 1..Len(units) |-> write_s16_le(units[i].x) \o write_s16_le(units[i].y)])

write_csewseg(design, units) ==
    write_u16_le(AsU16(Max(color_change_count(design) + 1, 1)))
        \o ColorPairs(design.colors)
        \o (IF design.colors = <<>>
            THEN write_u16_le(0) \o write_u16_le(DEFAULT_PEC_COLOR_BLACK) ELSE <<>>)
        \o write_u16_le(AsU16(Len(units)))
        \o Coordinates(units)

encode_pec_axis(val, is_jump) ==
    IF Abs(val) < 64 /\ ~ is_jump
    THEN <<IF val < 0 THEN val + 128 ELSE val>>
    ELSE LET clamped == clamp(val, -2048, 2047)
             unsigned_val == IF clamped < 0 THEN clamped + 4096 ELSE clamped
         IN  <<((unsigned_val \div 256) % 16) + 128 + (IF is_jump THEN 16 ELSE 0),
               unsigned_val % 256>>

encode_pec_stitch(dx, dy, is_jump) == encode_pec_axis(dx, is_jump) \o encode_pec_axis(dy, is_jump)

\* the arm of `match stype` in encode_pec_stitches
PecRecord(dx, dy, stitch_type) ==
    IF stitch_type = "Normal" THEN encode_pec_stitch(dx, dy, FALSE)
    ELSE IF stitch_type \in {"Jump", "Trim"} THEN encode_pec_stitch(dx, dy, TRUE)
    ELSE IF stitch_type = "ColorChange"
    THEN <<254, 176>> \o (IF dx # 0 \/ dy # 0 THEN encode_pec_stitch(dx, dy, FALSE) ELSE <<>>)
    ELSE <<255>>

RECURSIVE PecFrom(_, _, _, _)
PecFrom(units, i, prev_x, prev_y) ==
    IF i > Len(units) THEN IF needs_end(units) THEN <<255>> ELSE <<>>
    ELSE PecRecord(units[i].x - prev_x, units[i].y - prev_y, units[i].stitch_type)
             \o PecFrom(units, i + 1, units[i].x, units[i].y)

encode_pec_stitches(design) == PecFrom(units_of(design), 1, 0, 0)

\* "LA:", the name padded to 16, \r, 12 spaces, the colors and the padding
\* to 463 bytes, then the stitch data; names are of at most 16 ASCII bytes
PecColors(design, num_colors) ==
    <<Max(num_colors - 1, 0)>>
        \o [i \in 1..Len(design.colors) |-> nearest_pec_color(design.colors[i])]
        \o Repeat(20, Max(num_colors - Len(design.colors), 0))

PecHead(design) ==
    <<76, 65, 58>> \o design.name \o Repeat(32, 16 - Len(design.name)) \o <<13>> \o Repeat(32, 12)
        \o PecColors(design, Min(color_change_count(design) + 1, 255))

write_pec_block(design) ==
    PecHead(design) \o Repeat(32, Max(PEC_COLOR_LIST_SIZE - Len(PecHead(design)), 0))
        \o encode_pec_stitches(design)

\* "#PES0001", the PEC offset, hoop size, design area, block count
PesHead(pec_offset) ==
    <<35, 80, 69, 83, 48, 48, 48, 49>>
        \o <<pec_offset % 256, (pec_offset \div 256) % 256,
             (pec_offset \div 65536) % 256, (pec_offset \div 16777216) % 256>>
        \o write_u16_le(1) \o write_u16_le(1) \o write_u16_le(1)

PesFile(blocks, pec_block) == PesHead(12 + 6 + Len(blocks)) \o blocks \o pec_block

OutOfRange(e) ==
    \/ e.min_x < - MAX_PES_COORDINATE \/ e.max_x > MAX_PES_COORDINATE
    \/ e.min_y < - MAX_PES_COORDINATE \/ e.max_y > MAX_PES_COORDINATE

export_pes(design) ==
    IF Len(units_of(design)) > MAX_PES_STITCH_COUNT THEN Err("stitches")
    ELSE IF OutOfRange(extents(design)) THEN Err("coordinate range")
    ELSE Ok(PesFile(write_cembone(design) \o write_csewseg(design, units_of(design)),
                    write_pec_block(design)))

\* ------------------------------------------------ observation variables
\* last: the call made by the latest step and its result; on "err", pre
\* holds the scene and undo stack as they were on entry to that call;
\* flag tells whether a move_node call aimed at the moved node or below it.
\* snaps: the projected scenes on entry to each command of the current
\* unbroken run of successful executes (aligned with the undo stack).
\* undoneFrom: the projected scene on entry to the latest successful undo.
\* out: what the latest call returned when it was a call that only reads
\* (render_list, an export), with the arguments it was given; NoOut otherwise.
\* everMax: the largest id a node of the scene has ever had, -1 before the first.
\* discarded: the redo entries dropped by the successful execute that was
\* the latest call, or the call before a redo that is the latest call.
\* steps: calls the session may still make.
View(s) ==
    [nodes |-> s.nodes, root_children |-> s.root_children,
     shape_meta |-> s.shape_meta, sequence_track |-> s.sequence_track]

Outcome(call, cmd, result, s, u, flag) ==
    [call |-> call, cmd |-> cmd, result |-> result,
     pre |-> IF result = "err" THEN <<[scene |-> s, undo_stack |-> u]>> ELSE <<>>,
     flag |-> flag]

History == [undo_stack |-> undo_stack, redo_stack |-> redo_stack]

NoOut == [call |-> "none"]

\* a call that reads the document and returns `value`
Returned(value) ==
    /\ out' = value
    /\ UNCHANGED <<scene, undo_stack, redo_stack, last, snaps, undoneFrom, discarded, everMax, steps>>

Seen(m, s) == IF DOMAIN s.nodes = {} THEN m
              ELSE Max(m, CHOOSE a \in DOMAIN s.nodes : \A b \in DOMAIN s.nodes : b <= a)

Bounded(s) == s.next_id <= MaxId + 1 /\ s.next_sequencer_index <= MaxSeq

Step == steps > 0 /\ steps' = steps - 1

\* permutations of the node ids: the orders a HashMap may iterate in
Orders == {o \in [1..MaxId -> NodeIds] : \A i, j \in 1..MaxId : i # j => o[i] # o[j]}

PushSnap(run, v) ==
    [exec |-> TRUE,
     stack |-> TrimOldest(Append(IF run.exec THEN run.stack ELSE <<>>, v))]

PopSnap(run, result) ==
    [exec |-> FALSE,
     stack |-> IF result = "ok" /\ run.stack # <<>> THEN Pop(run.stack) ELSE <<>>]

Start(calls) ==
    /\ scene = SceneNew
    /\ undo_stack = <<>>
    /\ redo_stack = <<>>
    /\ last = Outcome("init", "none", "ok", SceneNew, <<>>, "none")
    /\ snaps = [exec |-> TRUE, stack |-> <<>>]
    /\ undoneFrom = <<>>
    /\ discarded = 0
    /\ everMax = -1
    /\ out = NoOut
    /\ steps = calls

Init == Start(MaxSteps)
DeepInit == Start(DeepSteps)

\* r is what a CommandHistory method returned for the scene s0 it was given
Commit(r, call, cmdType, s0) ==
    /\ Step
    /\ Bounded(r.s)
    /\ scene' = r.s
    /\ undo_stack' = r.h.undo_stack
    /\ redo_stack' = r.h.redo_stack
    /\ last' = Outcome(call, cmdType, r.result, s0, undo_stack, "none")
    /\ snaps' = IF call = "execute" /\ r.result = "ok" THEN PushSnap(snaps, View(scene))
                ELSE IF call = "undo" THEN PopSnap(snaps, r.result)
                ELSE [exec |-> FALSE, stack |-> <<>>]
    /\ undoneFrom' = IF call = "undo" /\ r.result = "ok" THEN <<View(scene)>>
                     ELSE IF call = "redo" /\ last.call = "undo" /\ last.result = "ok"
                     THEN undoneFrom
                     ELSE <<>>
    /\ discarded' = IF call = "execute" /\ r.result = "ok" THEN Len(redo_stack)
                    ELSE IF call = "redo" /\ last.call = "execute" /\ last.result = "ok"
                    THEN discarded
                    ELSE 0
    /\ everMax' = Seen(everMax, r.s)
    /\ out' = NoOut

\* state::execute_command on the scene s0 the wrapper has prepared
ExecuteCommand(s0, cmd) == Commit(history_execute(History, s0, cmd), "execute", cmd.type, s0)

\* a wrapper that fails before it reaches execute_command
WrapperError ==
    /\ Step
    /\ last' = Outcome("none", "none", "err", scene, undo_stack, "none")
    /\ snaps' = [exec |-> FALSE, stack |-> <<>>]
    /\ UNCHANGED <<scene, undo_stack, redo_stack>>
    /\ undoneFrom' = <<>>
    /\ discarded' = 0
    /\ everMax' = everMax
    /\ out' = NoOut

AddNodeCommand(a, kind, parent, transform) ==
    [type |-> "AddNode", id |-> a.id, kind |-> kind, parent |-> parent, transform |-> transform]

scene_add_node(kind, parent, transform) ==
    ExecuteCommand(alloc_id(scene).s, AddNodeCommand(alloc_id(scene), kind, parent, transform))

scene_remove_node(id) ==
    IF build_remove_command(scene, id).ok
    THEN ExecuteCommand(scene, build_remove_command(scene, id).cmd)
    ELSE WrapperError

scene_update_transform(id, new) ==
    IF id \notin DOMAIN scene.nodes THEN WrapperError
    ELSE ExecuteCommand(scene, [type |-> "UpdateTransform", id |-> id,
                                old |-> scene.nodes[id].transform, new |-> new])

scene_update_kind(id, new) ==
    IF id \notin DOMAIN scene.nodes THEN WrapperError
    ELSE ExecuteCommand(scene, [type |-> "UpdateKind", id |-> id,
                                old |-> scene.nodes[id].kind, new |-> new])

\* index < 0 asks for the end of the new parent's children
EndIndex(s, parent) ==
    IF parent # NoneId
    THEN IF parent \in DOMAIN s.nodes THEN Len(s.nodes[parent].children) ELSE 0
    ELSE Len(s.root_children)

scene_move_node(id, new_parent, index) ==
    IF id \notin DOMAIN scene.nodes THEN WrapperError
    ELSE ExecuteCommand(scene, [type |-> "MoveNode", id |-> id,
                                old_parent |-> scene.nodes[id].parent,
                                old_index |-> ChildIndex(scene, id),
                                new_parent |-> new_parent,
                                new_index |-> IF index < 0 THEN EndIndex(scene, new_parent)
                                              ELSE index])

scene_reorder_child(id, new_index) ==
    IF id \notin DOMAIN scene.nodes THEN WrapperError
    ELSE IF Position(Siblings(scene, id), id) < 0 THEN WrapperError
    ELSE ExecuteCommand(scene, [type |-> "ReorderChild", id |-> id,
                                old_index |-> Position(Siblings(scene, id), id),
                                new_index |-> new_index])

BlockOrder(s) == IF s.sequence_track = <<>> THEN sequencer_shape_ids(s) ELSE s.sequence_track

scene_reorder_stitch_block(id, new_index) ==
    IF Position(BlockOrder(scene), id) < 0 THEN WrapperError
    ELSE ExecuteCommand(scene, [type |-> "ReorderSequencer", id |-> id,
                                old_index |-> Position(BlockOrder(scene), id),
                                new_index |-> new_index])

scene_set_object_routing_overrides(id, new) ==
    IF ~ is_shape(scene, id) THEN WrapperError
    ELSE ExecuteCommand(scene, [type |-> "SetObjectRoutingOverrides", id |-> id,
                                old |-> object_routing_overrides(scene, id), new |-> new])

TopType(stack) == IF stack = <<>> THEN "none" ELSE Top(stack).type

scene_undo(order) == Commit(history_undo(History, scene, order), "undo", TopType(undo_stack), scene)

scene_redo == Commit(history_redo(History, scene), "redo", TopType(redo_stack), scene)

SceneAddNode == \E kind \in Kinds, parent \in {NoneId} \cup NodeIds : scene_add_node(kind, parent, 0)
SceneRemoveNode == \E id \in NodeIds : scene_remove_node(id)
SceneUpdateTransform == \E id \in NodeIds, t \in Transforms : scene_update_transform(id, t)
SceneUpdateKind == \E id \in NodeIds, kind \in Kinds : scene_update_kind(id, kind)
SceneMoveNode ==
    \E id \in NodeIds, parent \in {NoneId} \cup NodeIds, index \in {-1} \cup Indices :
        scene_move_node(id, parent, index)
SceneReorderChild == \E id \in NodeIds, index \in Indices : scene_reorder_child(id, index)
SceneReorderStitchBlock == \E id \in NodeIds, index \in Indices : scene_reorder_stitch_block(id, index)
SceneSetObjectRoutingOverrides ==
    \E id \in NodeIds, o \in Overrides : scene_set_object_routing_overrides(id, o)
SceneUndo == \E order \in Orders : scene_undo(order)
SceneRedo == scene_redo

\* ----------------------------------------------- Scene called directly
\* the nodes reached from `ids` through children lists
RECURSIVE Below(_, _, _)
Below(s, ids, fuel) ==
    IF fuel = 0 THEN ids
    ELSE Below(s, ids \cup {c \in DOMAIN s.nodes :
                              \E p \in ids \cap DOMAIN s.nodes : Contains(s.nodes[p].children, c)},
               fuel - 1)

\* where a move_node call aims: at the moved node, below it, or elsewhere
Aim(s, id, target) ==
    IF id \notin DOMAIN s.nodes THEN "none"
    ELSE IF target = id THEN "self"
    ELSE IF target \in Below(s, {id}, MaxId + 1) THEN "descendant"
    ELSE "none"

SceneCall(r, call, flag) ==
    /\ Step
    /\ Bounded(r.s)
    /\ scene' = r.s
    /\ last' = Outcome(call, "none", IF r.ok THEN "ok" ELSE "err", scene, undo_stack, flag)
    /\ everMax' = Seen(everMax, r.s)
    /\ out' = NoOut
    /\ UNCHANGED <<undo_stack, redo_stack, snaps, undoneFrom, discarded>>

DirectAddNode ==
    \E kind \in Kinds, parent \in {NoneId} \cup NodeIds :
        SceneCall(add_node(scene, kind, parent), "add_node", "none")
DirectRemoveNode == \E id \in NodeIds : SceneCall(remove_node(scene, id), "remove_node", "none")
DirectMoveNode ==
    \E id \in NodeIds, parent \in {NoneId} \cup NodeIds, index \in {-1} \cup Indices :
        SceneCall(move_node(scene, id, parent, index), "move_node", Aim(scene, id, parent))
DirectReorderChild ==
    \E id \in NodeIds, index \in Indices :
        SceneCall(reorder_child(scene, id, index), "reorder_child", "none")
DirectReorderSequencerShape ==
    \E id \in NodeIds, index \in Indices :
        SceneCall(reorder_sequencer_shape(scene, id, index), "reorder_sequencer_shape", "none")
DirectSetObjectRoutingOverrides ==
    \E id \in NodeIds, o \in Overrides :
        SceneCall(set_object_routing_overrides(scene, id, o), "set_object_routing_overrides", "none")

\* ------------------------------------------------ layers shown and hidden
RenderAddNode ==
    \E kind \in RenderKinds, parent \in {NoneId} \cup NodeIds : scene_add_node(kind, parent, 0)
RenderUpdateKind ==
    \E id \in NodeIds, kind \in {"Layer", "HiddenLayer"} : scene_update_kind(id, kind)
scene_get_render_list == Returned([call |-> "render_list", items |-> render_list(scene)])

\* ------------------------------------------------------------- exports
\* RoutingOptions::default(), lengths in quarter millimetres
DefaultRouting ==
    [policy |-> "Balanced", max_jump_mm |-> 100, trim_threshold_mm |-> 48,
     preserve_color_order |-> TRUE, preserve_layer_order |-> FALSE,
     allow_reverse |-> TRUE, allow_color_merge |-> FALSE, allow_underpath |-> TRUE,
     entry_exit_mode |-> "Auto", tie_mode |-> "ShapeStartEnd",
     min_stitch_run_before_trim_mm |-> 8, sequence_mode |-> "Optimizer"]

Policies == {"Balanced", "MinTravel", "MinTrims"}
SequenceModes == {"StrictSequencer", "Optimizer"}
TieModes == {"Off", "ShapeStartEnd", "ColorChange"}

Normal(position) == [position |-> position, is_jump |-> FALSE, is_trim |-> FALSE]

\* blocks.push(ShapeStitchBlock { color, stitches, source_order }) for each
\* render item in turn
Enumerated(blocks) == [i \in 1..Len(blocks) |-> [blocks[i] EXCEPT !.source_order = i - 1]]

\* the block lists of 1..n blocks drawn from `blocks`
BlockLists(blocks, n) == {Enumerated(l) : l \in UNION {[1..k -> blocks] : k \in 1..n}}

\* one-coloured blocks of two plain stitches, from `start` to `end`
RouteBlockSet ==
    {[color |-> "red", stitches |-> <<Normal(4 * start), Normal(4 * end)>>, source_order |-> 0] :
        start \in 0..RoutePos, end \in 0..RoutePos}

RouteRoutings ==
    {[DefaultRouting EXCEPT !.policy = policy, !.sequence_mode = mode, !.allow_reverse = reverse] :
        policy \in Policies, mode \in SequenceModes, reverse \in BOOLEAN}

Exported(blocks, routing) ==
    Returned([call |-> "export", blocks |-> blocks, routing |-> routing,
              result |-> scene_to_export_design_with_routing(blocks, routing)])

\* an export is a function of its arguments: one is followed per document state
ExportRoute ==
    /\ out = NoOut
    /\ \E blocks \in BlockLists(RouteBlockSet, RouteBlocks), routing \in RouteRoutings :
          Exported(blocks, routing)

\* the export of the document itself. The shape with id n is a line from
\* 2n mm to 2n + 1 mm, so that every stitch of a design tells its shape.
ShapeBlock(id, source_order) ==
    [color |-> "red", stitches |-> <<Normal(8 * id), Normal(8 * id + 4)>>,
     source_order |-> source_order]

\* the loop over render_items.iter().enumerate(): a block for each Shape
RECURSIVE BlocksFrom(_, _, _)
BlocksFrom(s, items, i) ==
    IF i > Len(items) THEN <<>>
    ELSE (IF s.nodes[items[i]].kind = "Shape" THEN <<ShapeBlock(items[i], i - 1)>> ELSE <<>>)
         \o BlocksFrom(s, items, i + 1)

SceneBlocks(s) == BlocksFrom(s, render_list(s), 1)

StrictRoutings ==
    {[DefaultRouting EXCEPT !.sequence_mode = mode, !.allow_reverse = reverse] :
        mode \in SequenceModes, reverse \in BOOLEAN}

scene_export_design_with_options(routing) ==
    Returned([call |-> "export_scene", routing |-> routing,
              result |-> scene_to_export_design_with_routing(SceneBlocks(scene), routing)])

SceneExport == \E routing \in StrictRoutings : scene_export_design_with_options(routing)

\* a block of two stitches from `start` to `end`; `trimmed` marks the second
\* one is_trim, as the satin generator marks the last stitch of an underlay pass
Line(color, start, end, trimmed) ==
    [color |-> color,
     stitches |-> <<Normal(start), [position |-> end, is_jump |-> FALSE, is_trim |-> trimmed]>>,
     source_order |-> 0]

\* blocks of two thread colours: from 0 to 2 mm, from 2 to 0 mm, and at 1 mm
ColorBlockSet ==
    {Line(color, start, 8 - start, FALSE) : color \in {"red", "blue"}, start \in {0, 4, 8}}

ColorRoutings ==
    {[DefaultRouting EXCEPT !.tie_mode = tie, !.preserve_layer_order = keep,
                            !.preserve_color_order = colors, !.allow_color_merge = merge] :
        tie \in TieModes, keep \in BOOLEAN, colors \in BOOLEAN, merge \in BOOLEAN}

ExportColors ==
    /\ out = NoOut
    /\ \E blocks \in BlockLists(ColorBlockSet, ColorBlocks), routing \in ColorRoutings :
          Exported(blocks, routing)

\* one-coloured blocks from 0, 2 or 6 mm to 0 or 6 mm, some ending in a trim
TrimBlockSet ==
    {Line("red", start, end, trimmed) :
        start \in {0, 8, 24}, end \in {0, 24}, trimmed \in BOOLEAN}

\* trims after 3 mm of travel, underpaths up to 4 mm, with and without a least
\* stitched run and lock stitches
TrimRoutings ==
    {[DefaultRouting EXCEPT !.policy = policy, !.allow_underpath = underpath,
                            !.trim_threshold_mm = 12, !.max_jump_mm = 16,
                            !.min_stitch_run_before_trim_mm = run, !.tie_mode = tie] :
        policy \in Policies, underpath \in BOOLEAN, run \in {0, 12},
        tie \in {"Off", "ShapeStartEnd"}}

ExportTrims ==
    /\ out = NoOut
    /\ \E blocks \in BlockLists(TrimBlockSet, TrimBlocks), routing \in TrimRoutings :
          Exported(blocks, routing)

\* coordinates in twentieths of a millimetre: on and between units, beyond
\* MAX_DELTA, and beyond what an i32 holds
DstXs == {-1200, -250, 0, 3, 250, 1200}
DstYs == {-5, 0, 300}

DstStitchSet ==
    {[x |-> x, y |-> y, stitch_type |-> stitch_type] :
        x \in DstXs, y \in DstYs, stitch_type \in {"Normal", "Jump", "Trim", "ColorChange"}}

\* "Append end marker": an assembled design closes with an End on its last stitch
Ended(stitches) ==
    Append(stitches, [stitches[Len(stitches)] EXCEPT !.stitch_type = "End"])

DstDesigns == {Ended(l) : l \in UNION {[1..k -> DstStitchSet] : k \in 1..DstStitches}}

ExportDst ==
    /\ out = NoOut
    /\ \E design \in DstDesigns, build \in {"checked", "wrapping"} :
          Returned([call |-> "export_dst", design |-> design, build |-> build,
                    result |-> write_body(design, build)])

\* ------------------------------------------------- DST commands alone
\* encode_3byte takes any i32; the deltas tried reach CodecSlack beyond
\* MAX_DELTA on either side
CodecDeltas == (- MAX_DELTA - CodecSlack)..(MAX_DELTA + CodecSlack)
MoveTypes == {"Stitch", "Jump", "ColorChange"}

Encode3Byte ==
    /\ out = NoOut
    /\ \E dx \in CodecDeltas, dy \in CodecDeltas, move_type \in MoveTypes :
          Returned([call |-> "encode_3byte", dx |-> dx, dy |-> dy, move_type |-> move_type,
                    result |-> encode_3byte(dx, dy, move_type)])

\* the three bytes just written are read back
Decode3Byte ==
    /\ out.call = "encode_3byte"
    /\ Returned([out EXCEPT !.call = "decode_3byte",
                            !.result = decode_3byte(out.result[1], out.result[2], out.result[3])])

\* moves of one command, of several, and of the least and greatest i32
MoveDeltas == {I32_MIN, -300, - MAX_DELTA - 1, - MAX_DELTA, 0, 1, MAX_DELTA, MAX_DELTA + 1,
               2 * MAX_DELTA + 1, I32_MAX}

Moved(move, build) ==
    IF move.overflow /\ build = "checked" THEN [panic |-> TRUE]
    ELSE [panic |-> FALSE, commands |-> move.commands]

EncodeMove ==
    /\ out = NoOut
    /\ \E dx \in MoveDeltas, dy \in MoveDeltas, move_type \in MoveTypes,
          build \in {"checked", "wrapping"} :
          Returned([call |-> "encode_move", dx |-> dx, dy |-> dy, move_type |-> move_type,
                    build |-> build, result |-> Moved(encode_move(dx, dy, move_type), build)])

\* ------------------------------------------- DST bodies of any design
\* out.push / out.extend_from_slice: the bytes of the commands in a row
RECURSIVE Bytes(_)
Bytes(commands) ==
    IF commands = <<>> THEN <<>> ELSE commands[1] \o Bytes(Tail(commands))

\* an ExportDesign is any list of stitches: none at all, an End anywhere
BodyStitchSet ==
    {[x |-> x, y |-> y, stitch_type |-> stitch_type] :
        x \in {-1200, 0, 250}, y \in {0, 300},
        stitch_type \in {"Normal", "Jump", "Trim", "ColorChange", "End"}}

BodyDesigns == UNION {[1..k -> BodyStitchSet] : k \in 0..DstStitches}

WriteBody ==
    /\ out = NoOut
    /\ \E design \in BodyDesigns, build \in {"checked", "wrapping"} :
          Returned([call |-> "write_body", design |-> design, build |-> build,
                    result |-> write_body(design, build)])

\* ------------------------------------------------------ PES exports
\* coordinates in twentieths of a millimetre: none (NaN), short and long PEC
\* deltas, beyond the 12 bits of a PEC delta, beyond i16
PesXs == {NaN, 0, 40, 5000, 100000}
PesYs == {0, -130, 100000}

PesStitchSet ==
    {[x |-> x, y |-> y, stitch_type |-> stitch_type] :
        x \in PesXs, y \in PesYs, stitch_type \in {"Normal", "Jump", "Trim", "ColorChange"}}

\* Color { r, g, b, .. }
PesColorLists == {<<>>, <<<<237, 23, 31>>>>, <<<<237, 23, 31>>, <<10, 30, 120>>>>}

\* `padded`: PesPad more stitches at the origin; `ended`: an End on the last stitch
Padded(stitches, padded) ==
    IF padded THEN stitches \o Repeat([x |-> 0, y |-> 0, stitch_type |-> "Normal"], PesPad)
    ELSE stitches

Closed(stitches, ended) == IF ended /\ stitches # <<>> THEN Ended(stitches) ELSE stitches

PesDesigns ==
    {[name |-> <<116, 101, 115, 116>>, stitches |-> Closed(Padded(head, padded), ended),
      colors |-> colors] :
        head \in UNION {[1..k -> PesStitchSet] : k \in 0..PesStitches},
        padded \in BOOLEAN, ended \in BOOLEAN, colors \in PesColorLists}

ExportPes ==
    /\ out = NoOut
    /\ \E design \in PesDesigns :
          Returned([call |-> "export_pes", design |-> design, result |-> export_pes(design)])

\* ------------------------------------------- ids chosen by the caller
\* add_node_with_id is public: the caller may pass any NodeId, the largest
\* included. `id.0 + 1` then overflows: a build with overflow checks panics
\* there and the session ends, a build without them wraps to 0.
Panic(call) ==
    /\ steps > 0
    /\ steps' = 0
    /\ last' = Outcome(call, "none", "panic", scene, undo_stack, "none")
    /\ out' = NoOut
    /\ UNCHANGED <<scene, undo_stack, redo_stack, snaps, undoneFrom, discarded, everMax>>

IdAddNode == \E kind \in Kinds : SceneCall(add_node(scene, kind, NoneId), "add_node", "none")
IdAddNodeWithId ==
    \E id \in NodeIds \cup {U64_MAX}, kind \in Kinds :
        \/ SceneCall(add_node_with_id(scene, id, kind, NoneId, 0), "add_node_with_id", "none")
        \/ (id = U64_MAX /\ id \notin DOMAIN scene.nodes /\ id >= scene.next_id
              /\ Panic("add_node_with_id"))
IdRemoveNode ==
    \E id \in {0, U64_MAX} \cup NodeIds : SceneCall(remove_node(scene, id), "remove_node", "none")

\* --------------------------------- CommandHistory driven by hand-built commands
\* (as the unit tests of command.rs do): the before-fields are the caller's
ApiAddNode ==
    \E id \in NodeIds, kind \in Kinds, parent \in {NoneId} \cup NodeIds :
        ExecuteCommand(scene, [type |-> "AddNode", id |-> id, kind |-> kind,
                               parent |-> parent, transform |-> 0])
ApiRemoveNode ==
    \E id \in DOMAIN scene.nodes :
        ExecuteCommand(scene, build_remove_command(scene, id).cmd)
ApiMoveNode ==
    \E id \in NodeIds, old_parent \in {NoneId} \cup NodeIds, new_parent \in {NoneId} \cup NodeIds :
        ExecuteCommand(scene, [type |-> "MoveNode", id |-> id,
                               old_parent |-> old_parent, old_index |-> 0,
                               new_parent |-> new_parent, new_index |-> 0])

\* --------------------------------------------- parts of the wrapper API
AddRootNode == \E kind \in {"Group", "Shape"} : scene_add_node(kind, NoneId, 0)
AddGroup == \E parent \in {NoneId} \cup NodeIds : scene_add_node("Group", parent, 0)

\* -------------------------------------------------------- specifications
Next ==
    \/ SceneAddNode
    \/ SceneRemoveNode
    \/ SceneUpdateTransform
    \/ SceneUpdateKind
    \/ SceneMoveNode
    \/ SceneReorderChild
    \/ SceneReorderStitchBlock
    \/ SceneSetObjectRoutingOverrides
    \/ SceneUndo
    \/ SceneRedo

\* the whole wrapper API with undo and redo
Spec == Init /\ [][Next]_vars

SequencerNext ==
    \/ AddRootNode
    \/ SceneRemoveNode
    \/ SceneUpdateKind
    \/ SceneReorderStitchBlock
    \/ SceneUndo
    \/ SceneRedo

\* the calls that touch the sequencer order, followed further
SequencerSpec == DeepInit /\ [][SequencerNext]_vars

StrictNext ==
    \/ AddRootNode
    \/ SceneReorderStitchBlock
    \/ SceneExport

StrictSpec == Init /\ [][StrictNext]_vars

ColorNext == ExportColors

ColorSpec == Init /\ [][ColorNext]_vars

TrimNext == ExportTrims

TrimSpec == Init /\ [][TrimNext]_vars

DstNext == ExportDst

DstSpec == Init /\ [][DstNext]_vars

CodecNext == Encode3Byte \/ Decode3Byte \/ EncodeMove

CodecSpec == Init /\ [][CodecNext]_vars

BodyNext == WriteBody

BodySpec == Init /\ [][BodyNext]_vars

PesNext == ExportPes

PesSpec == Init /\ [][PesNext]_vars

OrderInit == Start(OrderSteps)

OrderNext ==
    \/ AddRootNode
    \/ SceneUpdateKind
    \/ SceneRemoveNode
    \/ SceneUndo

\* the calls that lead to an undo which gives Shapes their first index
OrderSpec == OrderInit /\ [][OrderNext]_vars

TreeNext ==
    \/ AddGroup
    \/ SceneRemoveNode
    \/ SceneMoveNode
    \/ SceneReorderChild
    \/ SceneUndo
    \/ SceneRedo

\* the calls that reshape the tree
TreeSpec == Init /\ [][TreeNext]_vars

SceneNext ==
    \/ DirectAddNode
    \/ DirectRemoveNode
    \/ DirectMoveNode
    \/ DirectReorderChild
    \/ DirectReorderSequencerShape
    \/ DirectSetObjectRoutingOverrides

\* the public methods of Scene called directly, without a history
SceneSpec == Init /\ [][SceneNext]_vars

ApiNext ==
    \/ ApiAddNode
    \/ ApiRemoveNode
    \/ ApiMoveNode
    \/ SceneUndo
    \/ SceneRedo

\* CommandHistory given hand-built commands
ApiSpec == Init /\ [][ApiNext]_vars

IdNext ==
    \/ IdAddNode
    \/ IdAddNodeWithId
    \/ IdRemoveNode

\* root nodes added with ids the scene allocates and ids the caller picks
IdSpec == Init /\ [][IdNext]_vars

RenderNext ==
    \/ RenderAddNode
    \/ RenderUpdateKind
    \/ SceneUndo
    \/ scene_get_render_list

\* nodes added anywhere, re-kinded to a shown or a hidden layer, undo, and
\* the render list read at any point
RenderSpec == Init /\ [][RenderNext]_vars

RouteNext == ExportRoute

\* exports of up to RouteBlocks one-coloured blocks under every routing policy
\* and sequence mode, with and without allow_reverse
RouteSpec == Init /\ [][RouteNext]_vars

\* ---------------------------------------------------------------- claims
Shapes(s) == {id \in DOMAIN s.nodes : s.nodes[id].kind = "Shape"}

Occurrences(seq, x) == Cardinality({i \in 1..Len(seq) : seq[i] = x})

HistoryCalls == {"execute", "undo", "redo"}

SceneCalls ==
    {"add_node", "remove_node", "move_node", "reorder_child",
     "reorder_sequencer_shape", "set_object_routing_overrides"}

\* C1: a successful undo that follows a run of successful executes (and the
\* undos already made of that run's later commands) leaves the scene equal, in
\* nodes, children order, kinds, transforms, shape_meta and sequence_track, to
\* the scene the undone command was executed on; so n executes followed by n
\* undos give back the scene they started from.
C1_ExecutesThenUndosRestoreScene ==
    [][(last'.call = "undo" /\ last'.result = "ok" /\ snaps.stack # <<>>)
          => View(scene') = Top(snaps.stack)]_vars

\* C2: a successful redo made right after a successful undo leaves the scene
\* equal (nodes, children order, kinds, transforms, shape_meta with its
\* sequencer_index values, sequence_track) to the scene that undo was given.
C2_UndoThenRedoIsIdentity ==
    (last.call = "redo" /\ last.result = "ok" /\ undoneFrom # <<>>)
        => View(scene) = undoneFrom[1]

C4_EveryShapeHasItsRecords ==
    \A id \in Shapes(scene) :
        /\ id \in DOMAIN scene.shape_meta
        /\ id \in scene.embroidery_objects
        /\ id \in DOMAIN scene.stitch_blocks
        /\ Occurrences(scene.sequence_track, id) = 1

\* C5: in every reachable state no two Shape nodes carry the same
\* sequencer_index.
C5_SequencerIndexUnique ==
    \A a, b \in Shapes(scene) \cap DOMAIN scene.shape_meta :
        a # b => scene.shape_meta[a].sequencer_index # scene.shape_meta[b].sequencer_index

\* the ids a children list (or root_children, for NoneId) holds
ChildrenOf(s, p) == IF p = NoneId THEN s.root_children ELSE s.nodes[p].children

\* how many places of all children lists hold `id`
Places(s, id) ==
    Occurrences(s.root_children, id)
    + Cardinality({pi \in (DOMAIN s.nodes) \X (1..MaxId) :
                     pi[2] <= Len(s.nodes[pi[1]].children) /\ s.nodes[pi[1]].children[pi[2]] = id})

RootIds(s) == {s.root_children[i] : i \in 1..Len(s.root_children)}

\* C6: in every reachable state every node of the node map sits in exactly one
\* place of the children lists, that place is in the list of the node its parent
\* field names (root_children for None), every listed id is a node, and every
\* node is reached from root_children: no duplicate, no orphan, no cycle.
C6_TreeWellFormed ==
    /\ \A id \in DOMAIN scene.nodes :
          /\ Places(scene, id) = 1
          /\ scene.nodes[id].parent \in {NoneId} \cup DOMAIN scene.nodes
          /\ Contains(ChildrenOf(scene, scene.nodes[id].parent), id)
          /\ \A i \in 1..Len(scene.nodes[id].children) :
                scene.nodes[id].children[i] \in DOMAIN scene.nodes
    /\ RootIds(scene) \subseteq DOMAIN scene.nodes
    /\ Below(scene, RootIds(scene), MaxId + 1) = DOMAIN scene.nodes

\* the undo of a RemoveNode has put back a node that has children
C6_Witness ==
    /\ last.call = "undo" /\ last.cmd = "RemoveNode" /\ last.result = "ok"
    /\ \E id \in DOMAIN scene.nodes : scene.nodes[id].children # <<>>

\* C7: a Scene method that returns an error leaves the whole Scene (nodes,
\* root_children, next_id, shape_meta, next_sequencer_index, derived records)
\* as it was on entry.
C7_SceneErrorChangesNothing ==
    (last.call \in SceneCalls /\ last.result = "err") => scene = last.pre[1].scene

\* C8: move_node whose new parent is the moved node or one of its descendants
\* returns an error and leaves the Scene unchanged.
C8_MoveIntoOwnSubtreeRejected ==
    (last.call = "move_node" /\ last.flag # "none")
        => (last.result = "err" /\ scene = last.pre[1].scene)

\* move_node was aimed at a proper descendant of the moved node
C8_Witness == last.call = "move_node" /\ last.flag = "descendant"

\* the sequencer_index values of the Shape nodes are exactly 1..N
DenseIndices(s) ==
    /\ Shapes(s) \subseteq DOMAIN s.shape_meta
    /\ {s.shape_meta[id].sequencer_index : id \in Shapes(s)} = 1..Cardinality(Shapes(s))
    /\ \A a, b \in Shapes(s) :
          a # b => s.shape_meta[a].sequencer_index # s.shape_meta[b].sequencer_index

\* C9: after reorder_sequencer_shape has succeeded (run by the execute, undo or
\* redo of a ReorderSequencer command, for any index offered, past the end
\* included) the sequencer_index values of the Shape nodes are a permutation
\* of 1..N, N the number of Shape nodes.
C9_ReorderMakesIndicesDense ==
    (last.cmd = "ReorderSequencer" /\ last.result = "ok") => DenseIndices(scene)

\* a shape among two was sent to an index past the end
C9_Witness ==
    /\ last.call = "execute" /\ last.cmd = "ReorderSequencer" /\ last.result = "ok"
    /\ Cardinality(Shapes(scene)) = 2
    /\ Top(undo_stack).new_index >= 2

\* C10: the undo stack never holds more than max_history commands, and a
\* successful execute on a full stack drops exactly its oldest command: the
\* others follow in their order and the executed command comes last.
C10_HistoryCapDropsOldest ==
    /\ Len(undo_stack) <= max_history
    /\ [][/\ Len(undo_stack') <= max_history
          /\ (last'.call = "execute" /\ last'.result = "ok" /\ Len(undo_stack) = max_history)
                => /\ Len(undo_stack') = max_history
                   /\ Pop(undo_stack') = Tail(undo_stack)
                   /\ Top(undo_stack').type = last'.cmd]_vars

\* an execute has pushed onto a full stack: the AddNode of node 1 is gone from it
C10_Witness ==
    /\ last.call = "execute" /\ last.result = "ok"
    /\ Len(undo_stack) = max_history
    /\ 1 \in DOMAIN scene.nodes
    /\ redo_stack = <<>>
    /\ \A i \in 1..Len(undo_stack) : undo_stack[i].type = "AddNode" /\ undo_stack[i].id # 1

\* C11: a successful execute leaves the redo stack empty, whatever it held
\* on entry; a redo made as the very next call returns false and leaves the
\* scene and both stacks as they were.
C11_ExecuteClearsRedo ==
    [][/\ (last'.call = "execute" /\ last'.result = "ok") => redo_stack' = <<>>
       /\ (last.call = "execute" /\ last.result = "ok" /\ last'.call = "redo")
             => /\ last'.result = "false"
                /\ scene' = scene
                /\ undo_stack' = undo_stack
                /\ redo_stack' = redo_stack]_vars

\* redo has returned false right after an execute that dropped redo entries
C11_Witness ==
    /\ last.call = "redo" /\ last.result = "false"
    /\ discarded > 0
    /\ undo_stack # <<>>

\* C12: next_id never decreases, and the id a call of add_node hands out (the
\* next_id it found) is greater than every id a node of the Scene ever had.
C12_IdsNeverReused ==
    [][/\ scene'.next_id >= scene.next_id
       /\ (last'.call = "add_node" /\ last'.result = "ok") => scene.next_id > everMax]_vars

\* C19: the render list holds no node that has, at any depth above it and
\* through any nesting of groups, shapes and layers, a Layer with visible = false.
C19_RenderListOmitsHidden ==
    out.call = "render_list"
        => \A i \in 1..Len(out.items) : ~ is_in_hidden_layer(scene, out.items[i])

\* the list was read with a shape two levels below a hidden layer
C19_Witness ==
    /\ out.call = "render_list"
    /\ \E id \in Shapes(scene) :
          /\ scene.nodes[id].parent # NoneId
          /\ scene.nodes[scene.nodes[id].parent].kind # "HiddenLayer"
          /\ is_in_hidden_layer(scene, id)

\* travel_distance_mm of the design exported from `blocks` under `routing`
Travel(blocks, routing) ==
    travel_distance_mm(scene_to_export_design_with_routing(blocks, routing).design.stitches, 1)

\* C14: for the blocks and routing options of any export, the design
\* exported with allow_reverse = true has no more travel than the design
\* exported with allow_reverse = false.
C14_ReverseNeverAddsTravel ==
    out.call = "export"
        => Travel(out.blocks, [out.routing EXCEPT !.allow_reverse = TRUE])
           <= Travel(out.blocks, [out.routing EXCEPT !.allow_reverse = FALSE])

\* the orders the blocks could be sewn in, each block as generated
Reorderings(blocks) ==
    {[i \in 1..Len(blocks) |-> blocks[p[i]]] :
        p \in {q \in [1..Len(blocks) -> 1..Len(blocks)] :
                  \A i, j \in 1..Len(blocks) : i # j => q[i] # q[j]}}

KeepOrder(routing) ==
    [routing EXCEPT !.sequence_mode = "Optimizer", !.preserve_layer_order = TRUE]

\* C15: when some order of the blocks has less travel than the render order,
\* the design exported by the optimizer with policy MinTravel and
\* preserve_layer_order = false has no more travel than the design exported
\* with preserve_layer_order = true.
C15_MinTravelNoWorseThanRenderOrder ==
    (/\ out.call = "export"
     /\ \E other \in Reorderings(out.blocks) :
           Travel(other, KeepOrder(out.routing)) < Travel(out.blocks, KeepOrder(out.routing)))
        => Travel(out.blocks, [out.routing EXCEPT !.sequence_mode = "Optimizer",
                                                  !.policy = "MinTravel",
                                                  !.preserve_layer_order = FALSE])
           <= Travel(out.blocks, KeepOrder(out.routing))

\* the shape a stitch of the document's design belongs to (ties lie within
\* TIE_OFFSET_MM of a block's end)
ShapeAt(x) == (x + TIE_OFFSET_MM) \div 8

\* the shapes of a design in the order they are sewn
RECURSIVE SewnFrom(_, _)
SewnFrom(stitches, i) ==
    IF i > Len(stitches) THEN <<>>
    ELSE (IF i = 1 \/ ShapeAt(stitches[i].x) # ShapeAt(stitches[i - 1].x)
          THEN <<ShapeAt(stitches[i].x)>> ELSE <<>>)
         \o SewnFrom(stitches, i + 1)

\* C13: a design exported with sequence_mode = StrictSequencer sews the
\* shapes in the scene's sequencer order (ascending sequencer_index).
C13_StrictFollowsSequencer ==
    (out.call = "export_scene" /\ out.routing.sequence_mode = "StrictSequencer" /\ out.result.ok)
        => SewnFrom(out.result.design.stitches, 1) = sequencer_shape_ids(scene)

\* the blocks of an export in the order they are sewn
Routed(o) == optimize_blocks_for_travel(o.blocks, o.routing)

\* the thread colours of consecutive blocks, a colour once per run
RECURSIVE RunColors(_, _)
RunColors(blocks, i) ==
    IF i > Len(blocks) THEN <<>>
    ELSE (IF i = 1 \/ blocks[i].color # blocks[i - 1].color THEN <<blocks[i].color>> ELSE <<>>)
         \o RunColors(blocks, i + 1)

\* C16: the colors of an exported design are one more than its ColorChange
\* stitches, at least one, and are the thread colours of the runs of blocks
\* between the colour changes, in the order sewn.
C16_ColorsFollowColorChanges ==
    (out.call = "export" /\ out.result.ok)
        => /\ Len(out.result.design.colors) = color_change_count(out.result.design) + 1
           /\ Len(out.result.design.colors) >= 1
           /\ out.result.design.colors = RunColors(Routed(out), 1)

\* a colour sewn, left and sewn again
C16_Witness ==
    /\ out.call = "export" /\ out.result.ok
    /\ Len(out.result.design.colors) = 3
    /\ out.result.design.colors[1] = out.result.design.colors[3]

\* the condition the claim gives for a Trim before `block`, `a` being the
\* locals of the assembly on reaching "Move to the start of this shape"
TrimDue(a, block, routing) ==
    /\ distance(a.current_position[1], start_point(block)) >= routing.trim_threshold_mm
    /\ a.run_since_trim_mm >= routing.min_stitch_run_before_trim_mm
    /\ ~ (/\ routing.allow_underpath
          /\ distance(a.current_position[1], start_point(block)) <= routing.max_jump_mm)
    /\ routing.policy \in {"Balanced", "MinTrims"}

\* what the design holds for the move to `block`: whether the block starts
\* away from the current position, whether the claim's condition holds,
\* whether the last stitch emitted so far is a Trim, and the one or two
\* stitches of the design that follow the stitches emitted so far
MoveRecord(a, block, routing, stitches) ==
    IF a.current_position = <<>> \/ distance(a.current_position[1], start_point(block)) = 0
    THEN [moves |-> FALSE]
    ELSE [moves |-> TRUE,
          due |-> TrimDue(a, block, routing),
          trimmed |-> LastType(a) = "Trim",
          trim |-> [x |-> a.current_position[1], stitch_type |-> "Trim"],
          jump |-> [x |-> start_point(block), stitch_type |-> "Jump"],
          emitted |-> SubSeq(stitches, Len(a.stitches) + 1, Len(a.stitches) + 2)]

\* the moves of an assembly, block by block
RECURSIVE MoveRecords(_, _, _, _)
MoveRecords(a, blocks, routing, stitches) ==
    IF blocks = <<>> THEN <<>>
    ELSE <<MoveRecord(BeforeMove(a, Head(blocks), routing), Head(blocks), routing, stitches)>>
         \o MoveRecords(AssembleBlock(a, Head(blocks), routing), Tail(blocks), routing, stitches)

Moves(o) == MoveRecords(AssemblyStart, Routed(o), o.routing, o.result.design.stitches)

\* a Trim where the needle stands and then the Jump if `trim`, else the Jump
MoveEmitted(m, trim) ==
    IF trim THEN m.emitted = <<m.trim, m.jump>> ELSE m.emitted[1] = m.jump

EachAsStated(moves) ==
    \A k \in 1..Len(moves) : moves[k].moves => MoveEmitted(moves[k], moves[k].due)

EachAsAmended(moves) ==
    \A k \in 1..Len(moves) :
        moves[k].moves => MoveEmitted(moves[k], moves[k].due /\ ~ moves[k].trimmed)

\* C17 as stated: before a block that starts away from the current position
\* a Trim is emitted exactly when travel >= trim_threshold_mm, the run since
\* the last trim >= min_stitch_run_before_trim_mm, no underpath covers the
\* travel and the policy is Balanced or MinTrims; a Jump follows in any case.
C17_TrimExactlyWhenDue ==
    (out.call = "export" /\ out.result.ok) => EachAsStated(Moves(out))

\* C17 amended: the Trim is emitted exactly when that condition holds and
\* the last stitch emitted so far is not itself a Trim.
C17_TrimWhenDueAndNotTrimmed ==
    (out.call = "export" /\ out.result.ok) => EachAsAmended(Moves(out))

SomeTrimEmitted(moves) ==
    \E k \in 1..Len(moves) :
        /\ moves[k].moves /\ moves[k].due /\ ~ moves[k].trimmed
        /\ moves[k].emitted = <<moves[k].trim, moves[k].jump>>

\* a Trim was due and was emitted before a block
C17_Witness ==
    out.call = "export" /\ out.result.ok /\ SomeTrimEmitted(Moves(out))

\* C18: the design exported with tie_mode = ShapeStartEnd has strictly more
\* stitches than the design exported from the same blocks with tie_mode = Off
\* and the other routing options equal.
C18_TiesAddStitches ==
    (out.call = "export" /\ out.result.ok)
        => Len(scene_to_export_design_with_routing(
                   out.blocks, [out.routing EXCEPT !.tie_mode = "ShapeStartEnd"]).design.stitches)
           > Len(scene_to_export_design_with_routing(
                     out.blocks, [out.routing EXCEPT !.tie_mode = "Off"]).design.stitches)

\* an export with lock stitches, whose runs they lengthen so far that a trim
\* precedes a move which has none with tie_mode = Off
C18_Witness ==
    /\ out.call = "export" /\ out.result.ok
    /\ out.routing.tie_mode = "ShapeStartEnd"
    /\ Len(out.result.design.stitches)
          > Len(scene_to_export_design_with_routing(
                    out.blocks, [out.routing EXCEPT !.tie_mode = "Off"]).design.stitches)
            + 10 * Len(out.blocks)

\* one command of a DST body read back
Decoded(command) ==
    IF command = DST_END_MARKER THEN [dx |-> 0, dy |-> 0, move_type |-> "End"]
    ELSE decode_3byte(command[1], command[2], command[3])

\* the index after the commands of one move from x, y: Jump chunks and then
\* a command of `move_type` that arrives at the target; 0 if there is none
RECURSIVE MoveRead(_, _, _, _, _, _)
MoveRead(commands, j, x, y, target, move_type) ==
    IF j > Len(commands) THEN 0
    ELSE LET d == Decoded(commands[j])
         IN  IF d.move_type = move_type /\ x + d.dx = target.x /\ y + d.dy = target.y
             THEN j + 1
             ELSE IF d.move_type = "Jump"
             THEN MoveRead(commands, j + 1, x + d.dx, y + d.dy, target, move_type)
             ELSE 0

\* the index after the three Jumps of a trim, which add up to no move
TrimRead(commands, j) ==
    IF /\ j + 2 <= Len(commands)
       /\ \A k \in j..(j + 2) : Decoded(commands[k]).move_type = "Jump"
       /\ Decoded(commands[j]).dx + Decoded(commands[j + 1]).dx + Decoded(commands[j + 2]).dx = 0
       /\ Decoded(commands[j]).dy + Decoded(commands[j + 1]).dy + Decoded(commands[j + 2]).dy = 0
    THEN j + 3 ELSE 0

\* the commands from j on give the stitches from i on, the needle at x, y
RECURSIVE ReadsBack(_, _, _, _, _, _)
ReadsBack(commands, j, unit_stitches, i, x, y) ==
    IF i > Len(unit_stitches) THEN j = Len(commands) + 1
    ELSE LET s == unit_stitches[i]
             next == IF s.stitch_type = "Trim"
                     THEN IF TrimRead(commands, j) = 0 THEN 0
                          ELSE MoveRead(commands, TrimRead(commands, j), x, y, s, "Jump")
                     ELSE MoveRead(commands, j, x, y, s, DstMoveType(s.stitch_type))
         IN  next # 0 /\ ReadsBack(commands, next, unit_stitches, i + 1, s.x, s.y)

\* C20: the DST body of an assembled design, decoded command by command with
\* the deltas added up, gives for each stitch in order the position of
\* stitches_in_units and its move type, a Trim as three Jumps of no net move
\* and the move as a Jump, a move of more than 121 units as Jump chunks and a
\* last command of the intended type.
C20_DstBodyReadsBack ==
    out.call = "export_dst"
        => /\ ~ out.result.panic
           /\ ReadsBack(out.result.commands, 1, stitches_in_units(out.design), 1, 0, 0)

\* within what one command holds
InDelta(d) == - MAX_DELTA <= d /\ d <= MAX_DELTA

\* C21: for dx, dy in [-121, 121] and each move type, decode_3byte of the
\* three bytes of encode_3byte(dx, dy, T) is (dx, dy, T).
C21_Decode3ByteInvertsEncode3Byte ==
    (out.call = "decode_3byte" /\ InDelta(out.dx) /\ InDelta(out.dy))
        => out.result = [dx |-> out.dx, dy |-> out.dy, move_type |-> out.move_type]

\* the round trip of the extreme deltas, every digit set, as a ColorChange
C21_Witness ==
    /\ out.call = "decode_3byte"
    /\ out.dx = - MAX_DELTA /\ out.dy = MAX_DELTA /\ out.move_type = "ColorChange"
    /\ out.result.dx = - MAX_DELTA /\ out.result.dy = MAX_DELTA

\* the sum of the deltas of commands, read back with decode_3byte
RECURSIVE DeltaSum(_)
DeltaSum(commands) ==
    IF commands = <<>> THEN [dx |-> 0, dy |-> 0]
    ELSE LET d == Decoded(commands[1])
             rest == DeltaSum(Tail(commands))
         IN  [dx |-> d.dx + rest.dx, dy |-> d.dy + rest.dy]

JumpsThen(commands, move_type) ==
    /\ commands # <<>>
    /\ \A k \in 1..(Len(commands) - 1) : Decoded(commands[k]).move_type = "Jump"
    /\ Decoded(commands[Len(commands)]).move_type = move_type

\* C22: for any move (dx, dy) and intended type encode_move returns, and its
\* records have deltas within [-121, 121] that add up to (dx, dy), every
\* record but the last a Jump and the last of the intended type.
C22_EncodeMoveSplitsExactly ==
    out.call = "encode_move"
        => /\ ~ out.result.panic
           /\ \A k \in 1..Len(out.result.commands) :
                 /\ InDelta(Decoded(out.result.commands[k]).dx)
                 /\ InDelta(Decoded(out.result.commands[k]).dy)
           /\ DeltaSum(out.result.commands) = [dx |-> out.dx, dy |-> out.dy]
           /\ JumpsThen(out.result.commands, out.move_type)

\* C23: the body written for any design, an empty one and one that ends
\* with an End included, has a length that is a multiple of 3 and ends with
\* the bytes 00 00 F3.
C23_BodyEndsWithEndMarker ==
    (out.call = "write_body" /\ ~ out.result.panic)
        => LET body == Bytes(out.result.commands)
           IN  /\ Len(body) % 3 = 0
               /\ Len(body) >= 3
               /\ SubSeq(body, Len(body) - 2, Len(body)) = <<0, 0, 243>>

\* a design whose last stitch is an End, written as a body of the one marker
C23_Witness ==
    /\ out.call = "write_body" /\ ~ out.result.panic
    /\ Len(out.design) = DstStitches
    /\ out.design[Len(out.design)].stitch_type = "End"
    /\ out.design[1].stitch_type = "End"
    /\ Bytes(out.result.commands) = <<0, 0, 243, 0, 0, 243>>

\* a coordinate whose 0.1 mm units do not fit an i16
OutsideI16(v) == v # NaN /\ (AsUnits(v) > I16_MAX \/ AsUnits(v) < - I16_MAX - 1)

SomeOutsideI16(stitches) ==
    \E i \in 1..Len(stitches) : OutsideI16(stitches[i].x) \/ OutsideI16(stitches[i].y)

\* C24: export_pes returns an error, and so no bytes, whenever the design
\* has more stitches than the count field holds or a stitch coordinate is
\* outside the signed 16-bit range of 0.1 mm units.
C24_PesRejectsWhatDoesNotFit ==
    (/\ out.call = "export_pes"
     /\ \/ Len(out.design.stitches) > MAX_PES_STITCH_COUNT
        \/ SomeOutsideI16(out.design.stitches))
        => ~ out.result.ok

\* the little-endian fields of a PES file, offsets counted from 0
U16At(bytes, at) == bytes[at + 1] + 256 * bytes[at + 2]

PecOffset(bytes) ==
    bytes[9] + 256 * bytes[10] + 65536 * bytes[11] + 16777216 * bytes[12]

\* the stitch data of the embedded PEC block
PecStream(bytes) ==
    SubSeq(bytes, PecOffset(bytes) + PEC_COLOR_LIST_SIZE + 1, Len(bytes))

\* one axis of a PEC record at j: 12 bits and a jump flag behind a high
\* bit, 7 bits otherwise
PecAxis(stream, j) ==
    IF stream[j] >= 128
    THEN [value |-> LET v == (stream[j] % 16) * 256 + stream[j + 1]
                    IN  IF v >= 2048 THEN v - 4096 ELSE v,
          jump |-> (stream[j] \div 16) % 2 = 1, next |-> j + 2]
    ELSE [value |-> IF stream[j] >= 64 THEN stream[j] - 128 ELSE stream[j],
          jump |-> FALSE, next |-> j + 1]

\* the index after a record at j that moves the needle from x, y to s; 0 if
\* the record at j does not
PecMoveRead(stream, j, x, y, s, is_jump) ==
    IF j + 1 > Len(stream) THEN 0
    ELSE LET ax == PecAxis(stream, j)
         IN  IF ax.next > Len(stream) THEN 0
             ELSE LET ay == PecAxis(stream, ax.next)
                  IN  IF /\ ax.jump = is_jump /\ ay.jump = is_jump
                         /\ x + ax.value = s.x /\ y + ay.value = s.y
                      THEN ay.next ELSE 0

PecRecordRead(stream, j, x, y, s) ==
    IF j > Len(stream) THEN 0
    ELSE IF s.stitch_type = "End"
    THEN IF stream[j] = 255 /\ s.x = x /\ s.y = y THEN j + 1 ELSE 0
    ELSE IF s.stitch_type = "ColorChange"
    THEN IF j + 1 > Len(stream) \/ stream[j] # 254 \/ stream[j + 1] # 176 THEN 0
         ELSE IF s.x = x /\ s.y = y THEN j + 2
         ELSE PecMoveRead(stream, j + 2, x, y, s, FALSE)
    ELSE PecMoveRead(stream, j, x, y, s, s.stitch_type # "Normal")

\* the stream from j on gives the stitches from i on, the needle at x, y
RECURSIVE PecReadsBack(_, _, _, _, _, _)
PecReadsBack(stream, j, units, i, x, y) ==
    IF i > Len(units)
    THEN j = Len(stream) + 1 \/ (j = Len(stream) /\ stream[j] = 255)
    ELSE LET next == PecRecordRead(stream, j, x, y, units[i])
         IN  next # 0 /\ PecReadsBack(stream, next, units, i + 1, units[i].x, units[i].y)

\* C28: for a design that export_pes accepts, the PEC stitch stream read
\* record by record with the deltas added up gives at every stitch the
\* position of stitches_in_units.
C28_PecStreamKeepsPositions ==
    (out.call = "export_pes" /\ out.result.ok)
        => PecReadsBack(PecStream(out.result.s), 1, units_of(out.design), 1, 0, 0)

\* the color count of the CSewSeg block, which follows the 12 bytes of the
\* header, three u16 fields and the 40 bytes of CEmbOne
CSewSegCount(bytes) == U16At(bytes, 58)

\* C30: in a file written by export_pes the color count of the CSewSeg
\* block is the number of (block_index, palette_index) pairs after it: past
\* that many pairs stand the stitch count and the coordinates, which end
\* where the PEC block begins.
C30_ColorCountCountsPairs ==
    (out.call = "export_pes" /\ out.result.ok)
        => /\ U16At(out.result.s, 60 + 4 * CSewSegCount(out.result.s))
                  = Len(out.design.stitches)
           /\ 60 + 4 * CSewSegCount(out.result.s) + 2 + 4 * Len(out.design.stitches)
                  = PecOffset(out.result.s)

\* C25: sequence_track.ordered_block_ids lists the Shape ids in the order
\* of sequencer_shape_ids (ascending sequencer_index, then id), in every
\* reachable state.
C25_SequenceTrackIsSequencerOrder ==
    scene.sequence_track = sequencer_shape_ids(scene)

\* the ids that shape_meta, embroidery_objects, stitch_blocks and
\* sequence_track have an entry for
Recorded(s) ==
    DOMAIN s.shape_meta \cup s.embroidery_objects \cup DOMAIN s.stitch_blocks
        \cup {s.sequence_track[i] : i \in 1..Len(s.sequence_track)}

\* C26: shape_meta, embroidery_objects, stitch_blocks and sequence_track
\* have entries only for ids of nodes that exist and are Shapes, in every
\* reachable state.
C26_RecordsOnlyForShapes ==
    \A id \in Recorded(scene) : is_shape(scene, id)

\* C27: the scene after a sequence of execute, undo and redo calls is fixed
\* by that sequence. execute and redo never iterate the node map; an undo
\* does, so the scene an undo leaves is the same for every iteration order.
C27_UndoSameForEveryOrder ==
    \A o1 \in Orders, o2 \in Orders :
        history_undo(History, scene, o1).s = history_undo(History, scene, o2).s

SameOrReversed(a, b) ==
    /\ a.color = b.color /\ a.source_order = b.source_order
    /\ (a.stitches = b.stitches \/ a.stitches = Reverse(b.stitches))

\* each block of `blocks` is in `routed` once, as it was or reversed, and
\* nothing else is
Rearranged(blocks, routed) ==
    /\ Len(routed) = Len(blocks)
    /\ \A i \in 1..Len(blocks) :
          /\ Cardinality({j \in 1..Len(routed) :
                             routed[j].source_order = blocks[i].source_order}) = 1
          /\ \E j \in 1..Len(routed) : SameOrReversed(routed[j], blocks[i])

\* C29: optimize_blocks_for_travel returns its input blocks rearranged: each
\* block once, its stitches unchanged or exactly reversed, none lost and
\* none twice.
C29_RoutingRearrangesBlocks ==
    out.call = "export" => Rearranged(out.blocks, Routed(out))

\* three blocks of two colours routed so that the last is sewn second and a
\* block is sewn backwards
C29_Witness ==
    /\ out.call = "export" /\ Len(out.blocks) = 3
    /\ Routed(out)[2].source_order = 2
    /\ out.blocks[2].color # out.blocks[1].color
    /\ \E j \in 1..3 : \E i \in 1..3 :
          /\ Routed(out)[j].source_order = out.blocks[i].source_order
          /\ Routed(out)[j].stitches # out.blocks[i].stitches

====
